---- MODULE Spec2Model ----
(***************************************************************************)
(* The generate / call-tool loop of the Snowflake BI agent                 *)
(* (src/agent/core/agent.py), its tool executor and the MCP -> Gemini      *)
(* schema bridge (src/agent/core/mcp_registry.py).                         *)
(*                                                                         *)
(* Three specifications share the module:                                  *)
(*   Spec      the life of one Agent: construction, then one run_async;    *)
(*   FairSpec  Spec with the event loop driving the coroutine forward;     *)
(*   SpecExec  _execute_tool applied to every modelled call.               *)
(***************************************************************************)
EXTENDS Integers, Sequences, FiniteSets, TLC

\* ------------------------------------------------------------------ bounds
MaxHist      == 1   \* persisted session events before the request
MaxParts     == 2   \* parts in one tool-calling model response
MaxCalls     == 3   \* function calls the oracle asks for in one run
MaxTools     == 2   \* tools registered in the catalogue
MaxDepth     == 3   \* nesting of dicts and lists in a parameter schema
MaxErrLen    == 3   \* fragments in the text of an exception
MaxManagers  == 2   \* ResourceManager instances over the same resources.json
MaxSaves     == 2   \* save_alias calls in one run
MaxNameLen   == 3   \* pieces of text in a table identifier
MaxRows      == 3   \* data rows in the campaign sheet
MaxConversations == 2  \* conversations served by the process at once

\* ------------------------------------------------------- Python values
\* A Python value is a record tagged with its type; v is its repr.
Str(s)     == [tag |-> "str", v |-> s]
IntVal(s)  == [tag |-> "int", v |-> s]
FloatVal(s) == [tag |-> "float", v |-> s]
BoolVal(s) == [tag |-> "bool", v |-> s]
NoneVal    == [tag |-> "NoneType", v |-> "None"]
ListVal(s) == [tag |-> "list", v |-> s]
TupleVal(s) == [tag |-> "tuple", v |-> s]
\* A one-key dict {k: x}.
Dict1(k, x) == [tag |-> "dict", key |-> k, val |-> x]

IsMapping(x) == x.tag = "dict"

\* json.loads on the str texts of the model: the JSON documents and what
\* they decode to.  Any other str raises JSONDecodeError.
JsonDocuments ==
    ( "{\"rows\": 2}" :> Dict1("rows", IntVal("2")) ) @@
    ( "[1, 2]"        :> ListVal("[1, 2]") ) @@
    ( "42"            :> IntVal("42") ) @@
    ( "1.5"           :> FloatVal("1.5") ) @@
    ( "true"          :> BoolVal("True") ) @@
    ( "null"          :> NoneVal ) @@
    ( "\"hi\""        :> Str("hi") )

\* json.loads(x): [ok, val] on success, [ok = FALSE, exc] when it raises.
\* A non-str argument (dict, list, int, None, tuple ...) raises TypeError.
json_loads(x) ==
    IF x.tag = "str"
    THEN IF x.v \in DOMAIN JsonDocuments
         THEN [ok |-> TRUE, val |-> JsonDocuments[x.v], exc |-> ""]
         ELSE [ok |-> FALSE, val |-> NoneVal, exc |-> "JSONDecodeError"]
    ELSE [ok |-> FALSE, val |-> NoneVal, exc |-> "TypeError"]

\* ------------------------------------------------------- tool catalogue
\* Names the FastMCP registry can hold, and names an oracle can make up.
ToolNames    == {"get_account_info", "save_resource_alias", "read_google_sheet"}
UnknownNames == {"nope", "drop_table"}

\* What a tool function can hand back (tool.fn(**args)).
ToolReturns ==
    { Str("hello"), Str("{\"rows\": 2}"), Str("[1, 2]"), Str("42"),
      Str("null"), Str("\"hi\""),
      Dict1("rows", IntVal("2")), ListVal("[1, 2]"), IntVal("42"),
      NoneVal, TupleVal("(1, 2)") }

ToolErrors == {"boom", "Query failed"}

Return(x) == [kind |-> "return", val |-> x, text |-> ""]
Raise(t)  == [kind |-> "raise", val |-> NoneVal, text |-> t]

\* Keyword arguments of a call: fitting the signature, lacking a
\* parameter, or naming a parameter the function does not have.
ArgKinds == {"valid", "missing", "unexpected"}

UnexpectedKw == "got an unexpected keyword argument 'bad'"

\* Outcomes of await tool.fn(**args): an unexpected keyword always raises
\* TypeError; otherwise the function runs and returns or raises.
ToolBehaviours(args) ==
    IF args = "unexpected"
    THEN {Raise(UnexpectedKw)}
    ELSE {Return(x) : x \in ToolReturns} \cup {Raise(t) : t \in ToolErrors}

\* Outcomes of await mcp.get_tool(tool_name): the tool when the name is
\* registered; for any other name the registry answers None or raises.
UnknownToolText(tool_name) == "Unknown tool: " \o tool_name

LookupErrors(tool_name) == {"Tool '" \o tool_name \o "' not found"}

Lookups(registered, tool_name) ==
    IF tool_name \in registered
    THEN {[kind |-> "tool", text |-> ""]}
    ELSE {[kind |-> "none", text |-> ""]} \cup
         {[kind |-> "raise", text |-> t] : t \in LookupErrors(tool_name)}

\* ------------------------------------------------------- _execute_tool
WrappedTypes == {"list", "str", "int", "float", "bool", "NoneType"}

\* The value the try-body returns once tool.fn has returned result_str.
Normalize(result_str) ==
    LET loaded == json_loads(result_str)
        parsed == IF loaded.ok THEN loaded.val ELSE result_str
    IN  IF parsed.tag \in WrappedTypes THEN Dict1("result", parsed) ELSE parsed

\* What the coroutine hands to its caller: a value, or (raised) an
\* exception of the given text; invoked tells whether tool.fn was called.
Returned(x, invoked) ==
    [value |-> x, invoked |-> invoked, raised |-> FALSE, text |-> ""]
Propagated(t, invoked) ==
    [value |-> NoneVal, invoked |-> invoked, raised |-> TRUE, text |-> t]

\* _execute_tool with the try narrowed to the lookup: an exception of the
\* tool function leaves the coroutine.
_execute_tool_Propagates(tool_name, lookup, behaviour) ==
    CASE lookup.kind = "raise" ->
            Returned(Dict1("error", Str(lookup.text)), FALSE)
      [] lookup.kind = "none" ->
            Returned(Dict1("error", Str(UnknownToolText(tool_name))), FALSE)
      [] lookup.kind = "tool" /\ behaviour.kind = "raise" ->
            Propagated(behaviour.text, TRUE)
      [] OTHER ->
            Returned(Normalize(behaviour.val), TRUE)

\* Agent._execute_tool: the whole body sits in try / except Exception, so
\* a failed lookup and a failing tool both come back as {"error": str(e)}.
_execute_tool(tool_name, lookup, behaviour) ==
    CASE lookup.kind = "raise" ->
            Returned(Dict1("error", Str(lookup.text)), FALSE)
      [] lookup.kind = "none" ->
            Returned(Dict1("error", Str(UnknownToolText(tool_name))), FALSE)
      [] lookup.kind = "tool" /\ behaviour.kind = "raise" ->
            Returned(Dict1("error", Str(behaviour.text)), TRUE)
      [] OTHER ->
            Returned(Normalize(behaviour.val), TRUE)

\* ------------------------------------------------------- schema bridge
\* A registered tool: its name and whether types.FunctionDeclaration accepts
\* its description and sanitized parameter schema.
Tool(name, convertible) == [name |-> name, convertible |-> convertible]

\* The registry handed to build_gemini_tools_from_mcp:
\*   none         mcp is None
\*   private      mcp._tool_manager._tools is readable
\*   public       the private attribute is gone, mcp.get_tools() answers
\*   unreachable  the private attribute is gone and mcp.get_tools() raises
Registry(kind, tools) == [kind |-> kind, tools |-> tools]

\* Reading the tool map (fast path, then the async fallback).
LoadToolsMap(mcp) ==
    CASE mcp.kind = "private" -> [ok |-> TRUE, tools_map |-> mcp.tools]
      [] mcp.kind = "public"  -> [ok |-> TRUE, tools_map |-> mcp.tools]
      [] OTHER                -> [ok |-> FALSE, tools_map |-> <<>>]

\* The per-tool loop without its try: the first tool whose conversion
\* raises ends the build with that exception.
RECURSIVE Declarations_NoTry(_)
Declarations_NoTry(tools_map) ==
    IF tools_map = <<>>
    THEN [raised |-> FALSE, decls |-> <<>>]
    ELSE LET rest == Declarations_NoTry(Tail(tools_map))
             tool == Head(tools_map)
         IN  IF tool.convertible
             THEN [raised |-> rest.raised,
                   decls  |-> <<[name |-> tool.name]>> \o rest.decls]
             ELSE [raised |-> TRUE, decls |-> <<>>]

\* The per-tool loop: a tool whose conversion raises is logged and skipped.
RECURSIVE Declarations(_)
Declarations(tools_map) ==
    IF tools_map = <<>>
    THEN [raised |-> FALSE, decls |-> <<>>]
    ELSE LET rest == Declarations(Tail(tools_map))
             tool == Head(tools_map)
         IN  IF tool.convertible
             THEN [raised |-> rest.raised,
                   decls  |-> <<[name |-> tool.name]>> \o rest.decls]
             ELSE rest

\* build_gemini_tools_from_mcp(mcp): the list handed to the Agent, and
\* whether the call raised instead of returning.
build_gemini_tools_from_mcp(mcp) ==
    IF mcp.kind = "none"
    THEN [raised |-> FALSE, tools |-> <<>>]
    ELSE LET load == LoadToolsMap(mcp)
         IN  IF ~load.ok \/ load.tools_map = <<>>
             THEN [raised |-> FALSE, tools |-> <<>>]
             ELSE LET d == Declarations(load.tools_map)
                  IN  IF d.raised
                      THEN [raised |-> TRUE, tools |-> <<>>]
                      ELSE IF d.decls = <<>>
                      THEN [raised |-> FALSE, tools |-> <<>>]
                      ELSE [raised |-> FALSE,
                            tools  |-> <<[function_declarations |-> d.decls]>>]

\* Names mcp.get_tool can find.
Registered(mcp) ==
    IF mcp.kind \in {"private", "public"}
    THEN {mcp.tools[i].name : i \in DOMAIN mcp.tools}
    ELSE {}

\* ------------------------------------------------------- text
\* A text is a sequence of tokens; a code fence and the info string after
\* it are tokens of their own, so the fence patterns of _clean_response can
\* be matched token by token.
\* FENCE stands for the three backquotes that open or close a code block.
FENCE == "[fence]"
Whitespace == {" ", "\n"}

\* First index >= i at which token a is directly followed by token b and a
\* FENCE occurs somewhere after b; 0 when there is none: the leftmost match
\* of the pattern  FENCE <tag> .*? FENCE  from position i on.
RECURSIVE FindOpen(_, _, _)
FindOpen(text, tag, i) ==
    IF i + 2 > Len(text) THEN 0
    ELSE IF /\ text[i] = FENCE
            /\ text[i + 1] = tag
            /\ \E j \in (i + 2)..Len(text) : text[j] = FENCE
         THEN i
         ELSE FindOpen(text, tag, i + 1)

\* Index of the first FENCE at or after i (one exists when this is used).
RECURSIVE FindClose(_, _)
FindClose(text, i) ==
    IF text[i] = FENCE THEN i ELSE FindClose(text, i + 1)

\* re.sub(FENCE <tag> .*? FENCE, '', text, flags=re.DOTALL) from position i:
\* every non-overlapping match, left to right, is dropped.
RECURSIVE SubFrom(_, _, _)
SubFrom(text, tag, i) ==
    LET o == FindOpen(text, tag, i)
    IN  IF o = 0
        THEN SubSeq(text, i, Len(text))
        ELSE SubSeq(text, i, o - 1) \o
             SubFrom(text, tag, FindClose(text, o + 2) + 1)

re_sub(tag, text) == SubFrom(text, tag, 1)

\* str.strip(): leading and trailing whitespace tokens go.
RECURSIVE lstrip(_)
lstrip(text) ==
    IF text # <<>> /\ Head(text) \in Whitespace THEN lstrip(Tail(text)) ELSE text

RECURSIVE rstrip(_)
rstrip(text) ==
    IF text # <<>> /\ text[Len(text)] \in Whitespace
    THEN rstrip(SubSeq(text, 1, Len(text) - 1))
    ELSE text

strip(text) == rstrip(lstrip(text))

\* Agent._clean_response
_clean_response(text) == strip(re_sub("snowflake\n", re_sub("sql\n", text)))

\* "\n".join(text_parts)
RECURSIVE join(_)
join(text_parts) ==
    IF text_parts = <<>> THEN <<>>
    ELSE IF Len(text_parts) = 1 THEN Head(text_parts)
    ELSE Head(text_parts) \o <<"\n">> \o join(Tail(text_parts))

\* ------------------------------------------------------- conversation
AGENT_NAME == "snowflake_agent"

TextPart(t)     == [kind |-> "text", text |-> t]
CallPart(n, a)  == [kind |-> "function_call", name |-> n, args |-> a]
ResponsePart(n, r) == [kind |-> "function_response", name |-> n, response |-> r]
Content(role, parts) == [role |-> role, parts |-> parts]

\* Session events as ADK stores them: the author and the content, which is
\* missing, a types.Content (its role possibly unset, "") or a plain str.
SessionEvent(author, kind, role) ==
    [author |-> author, kind |-> kind, role |-> role,
     parts |-> <<TextPart(<<"earlier">>)>>]

SessionEvents ==
    { SessionEvent("user", "none", ""),
      SessionEvent(AGENT_NAME, "content", "model"),
      SessionEvent(AGENT_NAME, "content", ""),
      SessionEvent("user", "content", ""),
      SessionEvent("user", "str", "") }

\* Sequences over S of length at most n.
SeqsUpTo(S, n) == UNION {[1..k -> S] : k \in 0..n}

\* Agent._get_history: events without content are dropped, a str becomes a
\* Content, and a missing role is inferred from the author.
RECURSIVE _get_history(_)
_get_history(evs) ==
    IF evs = <<>> THEN <<>>
    ELSE LET event == Head(evs)
             role  == IF event.role = ""
                      THEN (IF event.author = AGENT_NAME THEN "model" ELSE "user")
                      ELSE event.role
         IN  IF event.kind = "none"
             THEN _get_history(Tail(evs))
             ELSE <<Content(role, event.parts)>> \o _get_history(Tail(evs))

\* ctx.user_content: absent, a str (possibly empty) or a types.Content, whose
\* role is set or not ("").
NoMessage == [kind |-> "none", text |-> <<>>, role |-> ""]
UserMessages ==
    { NoMessage,
      [kind |-> "str", text |-> <<>>, role |-> ""],
      [kind |-> "str", text |-> <<"hi">>, role |-> ""],
      [kind |-> "content", text |-> <<"hi">>, role |-> "user"],
      [kind |-> "content", text |-> <<"hi">>, role |-> ""] }

\* Truthy with the test written as user_message is None: an empty str
\* counts as a message.
Truthy_NoneOnly(user_message) == user_message.kind # "none"

\* Python truth of user_message: None and "" are false, a Content is true.
Truthy(user_message) ==
    \/ user_message.kind = "content"
    \/ user_message.kind = "str" /\ user_message.text # <<>>

\* The turn appended for the user message (a str is wrapped, a Content is
\* appended as it is).
UserTurn(user_message) ==
    IF user_message.kind = "str"
    THEN Content("user", <<TextPart(user_message.text)>>)
    ELSE Content(user_message.role, <<TextPart(user_message.text)>>)

\* ------------------------------------------------------- the oracle
NoCandidates   == [candidates |-> 0, has_content |-> FALSE, content |-> Content("", <<>>)]
EmptyCandidate == [candidates |-> 1, has_content |-> FALSE, content |-> Content("", <<>>)]
Candidate(parts) ==
    [candidates |-> 1, has_content |-> TRUE, content |-> Content("model", parts)]

\* Final texts an oracle can give.
AnswerTexts ==
    { <<"Total: 5">>,
      <<"Total: 5", "\n", FENCE, "sql\n", "SELECT 1", "\n", FENCE>>,
      <<FENCE, "snowflake\n", "SELECT 1", FENCE, "\n", "Done">>,
      <<FENCE, "SQL\n", "SELECT 1", "\n", FENCE>>,
      <<FENCE, "sql\n", "SELECT 1">>,
      <<" ">> }

Answers ==
    {Candidate(<<TextPart(t)>>) : t \in AnswerTexts} \cup
    { Candidate(<<TextPart(<<"Total: 5">>), TextPart(<<"Done">>)>>),
      Candidate(<<TextPart(<<>>)>>),
      Candidate(<<>>) }

\* Function calls the oracle asks for: of a registered name, of a name
\* nobody registered, and one whose args field is None.
RequestParts ==
    { CallPart("get_account_info", "valid"), CallPart("get_account_info", "None"),
      CallPart("nope", "valid") }

IsCall(p) == p.kind = "function_call"

\* A tool-calling response: function calls, after a text part or without one.
ToolRequests ==
    { Candidate(lead \o q) :
        lead \in {<<>>, <<TextPart(<<"Let me check.">>)>>},
        q \in SeqsUpTo(RequestParts, MaxParts) \ {<<>>} }

\* The function calls a response asks for.
Asked(r) == Cardinality({i \in DOMAIN r.content.parts : IsCall(r.content.parts[i])})

OracleErrors == {"503 UNAVAILABLE"}

\* What tool functions do inside a run.
RunBehaviours == {Return(Str("hello")), Raise("boom")}

NoneArgsError == "'NoneType' object is not iterable"

\* ------------------------------------------------------- sanitize_schema
\* JSON values of a parameter schema: a dict is a function from its keys, a
\* list a sequence, anything else a scalar.
Scalar(x) == [t |-> "scalar", a |-> x]
Object(d) == [t |-> "dict", d |-> d]
Array(l)  == [t |-> "list", l |-> l]

\* Keywords whose value maps names to schemas.
MapKeywords == {"properties", "$defs"}

\* Names a tool author can give a parameter or a definition.
EntryNames == {"a", "title", "additionalProperties", "properties"}

\* Scalar keywords beside the structural one: a title and
\* additionalProperties: false, as Pydantic writes them.
Marks(keys) ==
    [k \in keys |-> IF k = "title" THEN Scalar("T") ELSE Scalar("false")]

MarkSets == SUBSET {"title", "additionalProperties"}

\* The JSON Schemas of nesting depth at most n that FastMCP can hand over:
\* a schema holds scalar keywords and at most one of properties, $defs,
\* items, a schema-valued additionalProperties, and anyOf.
RECURSIVE SchemasOfDepth(_)
SchemasOfDepth(n) ==
    IF n = 0 THEN {}
    ELSE LET below   == SchemasOfDepth(n - 1)
             entries == IF n < 3 THEN {}
                        ELSE {e :> x : e \in EntryNames, x \in SchemasOfDepth(n - 2)}
         IN  {Object(Marks(m)) : m \in MarkSets}
             \cup {Object((k :> Object(e)) @@ Marks(m)) :
                       k \in MapKeywords, e \in entries, m \in MarkSets}
             \cup {Object(("items" :> x) @@ Marks(m)) : x \in below, m \in MarkSets}
             \cup {Object(("additionalProperties" :> x) @@ Marks(m)) :
                       x \in below, m \in SUBSET {"title"}}
             \cup {Object(("anyOf" :> Array(<<x>>)) @@ Marks(m)) :
                       x \in below, m \in MarkSets}

Schemas == SchemasOfDepth(MaxDepth)

\* sanitize_schema with the title stripped at every level.
RECURSIVE sanitize_schema_AnyTitle(_, _)
sanitize_schema_AnyTitle(schema_in, is_root) ==
    IF schema_in.t # "dict" THEN schema_in
    ELSE LET kept == DOMAIN schema_in.d \ {"additionalProperties", "title"}
         IN  Object([key \in kept |->
                 LET value == schema_in.d[key]
                 IN  IF value.t = "dict"
                     THEN IF key = "properties"
                          THEN Object([k \in DOMAIN value.d |->
                                   sanitize_schema_AnyTitle(value.d[k], FALSE)])
                          ELSE sanitize_schema_AnyTitle(value, FALSE)
                     ELSE IF value.t = "list"
                     THEN Array([i \in DOMAIN value.l |->
                              IF value.l[i].t = "dict"
                              THEN sanitize_schema_AnyTitle(value.l[i], FALSE)
                              ELSE value.l[i]])
                     ELSE value])

\* sanitize_schema(schema, is_root): a non-dict is returned as it is; of a
\* dict the additionalProperties key is skipped, and the title key when
\* is_root; a dict value under the key properties is rebuilt entry by entry,
\* any other dict value is sanitized as a schema, the dict items of a list
\* are sanitized and its other items kept.
RECURSIVE sanitize_schema(_, _)
sanitize_schema(schema_in, is_root) ==
    IF schema_in.t # "dict" THEN schema_in
    ELSE LET kept == {key \in DOMAIN schema_in.d :
                         /\ key # "additionalProperties"
                         /\ ~(is_root /\ key = "title")}
         IN  Object([key \in kept |->
                 LET value == schema_in.d[key]
                 IN  IF value.t = "dict"
                     THEN IF key = "properties"
                          THEN Object([k \in DOMAIN value.d |->
                                   sanitize_schema(value.d[k], FALSE)])
                          ELSE sanitize_schema(value, FALSE)
                     ELSE IF value.t = "list"
                     THEN Array([i \in DOMAIN value.l |->
                              IF value.l[i].t = "dict"
                              THEN sanitize_schema(value.l[i], FALSE)
                              ELSE value.l[i]])
                     ELSE value])

\* ------------------------------------------------------- ErrorHandler
\* The text of an exception is a sequence of fragments; no fragment holds
\* another one, so a substring of the text is a run of fragments.
\* str.lower() on the fragments that hold upper-case letters.
Lowered ==
    ("Does Not Exist" :> "does not exist") @@
    ("SQL compilation error" :> "sql compilation error") @@
    ("Numeric value" :> "numeric value") @@
    ("Invalid identifier" :> "invalid identifier") @@
    ("Division by zero" :> "division by zero") @@
    ("Authentication Failed" :> "authentication failed") @@
    ("Warehouse" :> "warehouse") @@
    (" 'X' " :> " 'x' ") @@
    ("Unable to parse range" :> "unable to parse range") @@
    ("INVALID_ARGUMENT" :> "invalid_argument")

lower(text) ==
    [i \in DOMAIN text |-> IF text[i] \in DOMAIN Lowered THEN Lowered[text[i]] ELSE text[i]]

\* What a Snowflake connector exception can say.
SnowflakeFragments ==
    { "does not exist", "Does Not Exist", " or not authorized",
      "SQL compilation error", "sql compilation error", "Numeric value",
      "out of range", "Invalid identifier", "Division by zero",
      "authentication failed", "Authentication Failed", "Warehouse",
      " 'X' ", "\n" }

\* What a Google Sheets API exception can say.
SheetsFragments ==
    { "403", "404", "Unable to parse range", "unable to parse range",
      "INVALID_ARGUMENT", "invalid_argument", " 'X' ", "\n" }

\* re.search(pattern, text) for a pattern of literal fragments and ".*",
\* which matches any run of fragments without a newline.
RECURSIVE MatchAt(_, _, _)
MatchAt(pattern, text, i) ==
    IF pattern = <<>> THEN TRUE
    ELSE IF Head(pattern) = ".*"
    THEN \E j \in i..(Len(text) + 1) :
            /\ \A k \in i..(j - 1) : text[k] # "\n"
            /\ MatchAt(Tail(pattern), text, j)
    ELSE /\ i <= Len(text)
         /\ text[i] = Head(pattern)
         /\ MatchAt(Tail(pattern), text, i + 1)

re_search(pattern, text) == \E i \in 1..(Len(text) + 1) : MatchAt(pattern, text, i)

\* pattern in error_str
Contains(pattern, text) ==
    \E i \in 1..(Len(text) + 1) :
        /\ i + Len(pattern) - 1 <= Len(text)
        /\ SubSeq(text, i, i + Len(pattern) - 1) = pattern

Info(type, message, suggestions) ==
    [type |-> type, message |-> message, suggestions |-> suggestions]

Entry(pattern, info) == [pattern |-> pattern, info |-> info]

SNOWFLAKE_ERRORS ==
    << Entry(<<"does not exist", " or not authorized">>,
             Info("TableNotFound",
                  "The table or view you're trying to access doesn't exist or you don't have permission.",
                  <<"Check the table name spelling",
                    "Ensure you're using the correct schema (format: SCHEMA.TABLE)",
                    "Verify you have SELECT permission on this table">>)),
       Entry(<<"SQL compilation error">>,
             Info("SQLSyntaxError",
                  "There's a syntax error in your SQL query.",
                  <<"Check for missing commas or quotes",
                    "Verify column names exist in the table",
                    "Try simplifying the query to isolate the issue">>)),
       Entry(<<"Numeric value", ".*", "out of range">>,
             Info("NumericOverflow",
                  "A numeric value in your query result is too large.",
                  <<"Use CAST() to convert to a larger data type",
                    "Apply filters to reduce the range of values",
                    "Consider using TO_VARCHAR() for very large numbers">>)),
       Entry(<<"Invalid identifier">>,
             Info("InvalidIdentifier",
                  "A column or table name in your query is invalid.",
                  <<"Use double quotes for case-sensitive or special character names",
                    "Check for typos in column/table names">>)),
       Entry(<<"Division by zero">>,
             Info("DivisionByZero",
                  "Your query attempted to divide by zero.",
                  <<"Add a WHERE clause to filter out zero denominators",
                    "Use NULLIF() to handle zero values: field / NULLIF(divisor, 0)",
                    "Use a CASE statement to handle zero denominators">>)),
       Entry(<<"authentication failed">>,
             Info("AuthenticationError",
                  "Failed to authenticate with Snowflake.",
                  <<"Check your SNOWFLAKE_USER and SNOWFLAKE_PASSWORD in .env",
                    "Verify your Snowflake account name is correct",
                    "Ensure your credentials haven't expired">>)),
       Entry(<<"Warehouse", ".*", "does not exist">>,
             Info("WarehouseNotFound",
                  "The specified warehouse doesn't exist or isn't accessible.",
                  <<"Check SNOWFLAKE_WAREHOUSE in your .env file",
                    "Verify the warehouse name spelling",
                    "Ensure the warehouse is running and not suspended">>)) >>

SHEETS_ERRORS ==
    << Entry(<<"403">>,
             Info("PermissionDenied",
                  "Access denied to the Google Sheet.",
                  <<"Share the sheet with your service account email",
                    "Check GOOGLE_SERVICE_ACCOUNT_PATH points to the correct file",
                    "Verify the service account has Editor or Viewer permissions">>)),
       Entry(<<"404">>,
             Info("SheetNotFound",
                  "The spreadsheet or sheet tab was not found.",
                  <<"Verify the spreadsheet ID is correct",
                    "Check that the sheet tab name matches exactly (case-sensitive)",
                    "Ensure the spreadsheet hasn't been deleted">>)),
       Entry(<<"Unable to parse range">>,
             Info("InvalidRange",
                  "The sheet range format is invalid.",
                  <<"Use A1 notation (e.g., 'Sheet1!A1:B10')",
                    "Ensure the sheet name is correct",
                    "Use single quotes for sheet names with spaces: 'My Sheet'!A1">>)),
       Entry(<<"INVALID_ARGUMENT">>,
             Info("InvalidArgument",
                  "Invalid argument provided to Google Sheets API.",
                  <<"Check that values are properly formatted",
                    "Ensure range notation is correct">>)) >>

\* return info["type"], info["message"], info["suggestions"]
Triple(info) == <<info.type, info.message, info.suggestions>>

SnowflakeFallback ==
    << "SnowflakeError",
       "An error occurred while executing your Snowflake query.",
       <<"Check the error details above",
         "Verify your SQL syntax is correct",
         "Try breaking down complex queries into simpler parts">> >>

SheetsFallback ==
    << "GoogleSheetsError",
       "An error occurred while accessing Google Sheets.",
       <<"Verify the spreadsheet ID is correct",
         "Check that the service account has proper permissions",
         "Try the operation again - might be a temporary API issue">> >>

\* The loop over SNOWFLAKE_ERRORS.items() from entry i on, then the fallback.
RECURSIVE SnowflakeFrom(_, _)
SnowflakeFrom(error_str, i) ==
    IF i > Len(SNOWFLAKE_ERRORS) THEN SnowflakeFallback
    ELSE IF re_search(lower(SNOWFLAKE_ERRORS[i].pattern), error_str)
         THEN Triple(SNOWFLAKE_ERRORS[i].info)
         ELSE SnowflakeFrom(error_str, i + 1)

\* handle_snowflake_error returning the last entry that matches.
RECURSIVE SnowflakeLastFrom(_, _)
SnowflakeLastFrom(error_str, i) ==
    IF i < 1 THEN SnowflakeFallback
    ELSE IF re_search(lower(SNOWFLAKE_ERRORS[i].pattern), error_str)
         THEN Triple(SNOWFLAKE_ERRORS[i].info)
         ELSE SnowflakeLastFrom(error_str, i - 1)

handle_snowflake_error_LastMatch(error_text) ==
    SnowflakeLastFrom(lower(error_text), Len(SNOWFLAKE_ERRORS))

handle_snowflake_error(error_text) == SnowflakeFrom(lower(error_text), 1)

\* The loop over SHEETS_ERRORS.items() from entry i on, then the fallback.
RECURSIVE SheetsFrom(_, _, _)
SheetsFrom(error_str, i, fallback) ==
    IF i > Len(SHEETS_ERRORS) THEN fallback
    ELSE IF Contains(SHEETS_ERRORS[i].pattern, error_str)
         THEN Triple(SHEETS_ERRORS[i].info)
         ELSE SheetsFrom(error_str, i + 1, fallback)

\* handle_sheets_error without the return after the loop.
handle_sheets_error_NoFallback(error_text) == SheetsFrom(error_text, 1, NoneVal)

handle_sheets_error(error_text) == SheetsFrom(error_text, 1, SheetsFallback)

\* ------------------------------------------------------- ResourceManager
Aliases     == {"q4_report", "monthly_sales"}
ResourceIds == {"1Sbjtqe0v0BAT", "1AbCdEfGh"}

\* The empty dict self.resources, and the empty JSON object.
NoAliases == <<>>

\* resources.json: not there, holding a JSON object, or just opened for
\* writing and empty.
Missing    == [kind |-> "missing", map |-> NoAliases]
Truncated  == [kind |-> "empty", map |-> NoAliases]
Stored(map) == [kind |-> "json", map |-> map]

\* _load_resources: the stored object; {} when the file is missing or
\* json.load raises on it.
_load_resources(f) == IF f.kind = "json" THEN f.map ELSE NoAliases

\* _save_resources that leaves the file as open(..., "w") made it.
_save_resources_NoFlush(res) == Truncated

\* _save_resources: json.dump(self.resources, f, indent=2) into the file
\* just opened for writing, closed when the with block ends.
_save_resources(res) == Stored(res)

\* save_alias that keeps the id an alias already has.
save_alias_KeepFirst(res, alias, resource_id) ==
    IF alias \in DOMAIN res THEN res ELSE (alias :> resource_id) @@ res

\* self.resources[alias] = resource_id
save_alias(res, alias, resource_id) ==
    [a \in DOMAIN res \cup {alias} |-> IF a = alias THEN resource_id ELSE res[a]]

\* self.resources.get(alias_or_id, alias_or_id)
get_id(res, alias_or_id) ==
    IF alias_or_id \in DOMAIN res THEN res[alias_or_id] ELSE alias_or_id

\* ------------------------------------------------------- query and export tools
\* Python None where a statement is expected.
None == "None"

Statements == {"SELECT 1", "SELECT * FROM sales"}

\* if not query: None and the empty string.
Falsy(query) == query \in {None, ""}

\* The tool modules that build their own Toolkit, each with its own
\* SnowflakeClient.
ToolModules == {"query_tools", "sheets_tools"}

\* What cursor.execute and fetchall do with a statement: rows, or an exception.
Rows(n) == [kind |-> "rows", n |-> n, text |-> ""]
Raises(t) == [kind |-> "raise", n |-> 0, text |-> t]

QueryOutcomes == {Rows(0), Rows(2), Raises("SQL compilation error")}

\* SnowflakeClient.query that notes the statement before executing it.
query_last_Eager(last, sql, outcome) == sql

\* SnowflakeClient.query: last_executed_query is set once the rows are fetched.
query_last(last, sql, outcome) == IF outcome.kind = "rows" THEN sql ELSE last

\* The response of spreadsheets().values().update(...).execute().
Updated(n) == [kind |-> "response", has_updatedCells |-> TRUE, updatedCells |-> n, text |-> ""]
NoCount    == [kind |-> "response", has_updatedCells |-> FALSE, updatedCells |-> 0, text |-> ""]
ApiError(t) == [kind |-> "raise", has_updatedCells |-> FALSE, updatedCells |-> 0, text |-> t]
NoWrite    == [kind |-> "none", has_updatedCells |-> FALSE, updatedCells |-> 0, text |-> ""]

WriteOutcomes == {Updated(6), Updated(0), NoCount, ApiError("403 Forbidden")}

ZeroCellsText == "Write operation returned 0 updated cells."

\* write_sheet that returns the response whatever it reports.
write_sheet_NoCheck(api) ==
    IF api.kind = "raise" THEN Raises(api.text) ELSE Rows(api.updatedCells)

\* write_sheet: the API exception propagates; result.get("updatedCells", 0)
\* equal to 0 raises ValueError; otherwise the response is returned.
write_sheet(api) ==
    IF api.kind = "raise" THEN Raises(api.text)
    ELSE LET updated_cells == IF api.has_updatedCells THEN api.updatedCells ELSE 0
         IN  IF updated_cells = 0 THEN Raises(ZeroCellsText)
             ELSE Rows(updated_cells)

\* get_sheet_names and add_worksheet of the target spreadsheet.
SheetOutcomes == {"has_tab", "adds_tab", "404 Not Found", "500 Backend Error"}

\* What a tool call answers: the kind of message, with the query argument
\* of the call, the statement it handed to SnowflakeClient.query, whether
\* write_sheet raised, and the latest statement executed successfully when
\* the call was made.
Reply(tool, query_arg, kind, ran, write_raised, before) ==
    [tool |-> tool, query |-> query_arg, kind |-> kind, ran |-> ran,
     write_raised |-> write_raised, before |-> before]

NoReply == Reply("", None, "", None, FALSE, None)

\* except Exception as e: in replicate_data_to_sheet.
FailureKind(text) == IF text = "404 Not Found" THEN "not_found" ELSE "error"

\* replicate_data_to_sheet(spreadsheet_id, sheet_name, query) on a Toolkit
\* whose SnowflakeClient holds last: the kind of message, the statement
\* handed to SnowflakeClient.query, whether write_sheet was called and
\* whether it raised, and the new last_executed_query.
replicate_data_to_sheet(last, query_arg, sheet, outcome, api) ==
    IF Falsy(query_arg) /\ last = None
    THEN [kind |-> "no_previous_query", ran |-> None, wrote |-> FALSE,
          write_raised |-> FALSE, last |-> last]
    ELSE LET query == IF Falsy(query_arg) THEN last ELSE query_arg
         IN  IF sheet \notin {"has_tab", "adds_tab"}
             THEN [kind |-> FailureKind(sheet), ran |-> None, wrote |-> FALSE,
                   write_raised |-> FALSE, last |-> last]
             ELSE IF outcome.kind = "raise"
             THEN [kind |-> FailureKind(outcome.text), ran |-> query, wrote |-> FALSE,
                   write_raised |-> FALSE, last |-> last]
             ELSE IF outcome.n = 0
             THEN [kind |-> "no_data", ran |-> query, wrote |-> FALSE,
                   write_raised |-> FALSE, last |-> query_last(last, query, outcome)]
             ELSE LET write_result == write_sheet(api)
                  IN  [kind |-> IF write_result.kind = "raise"
                                THEN FailureKind(write_result.text)
                                ELSE "replicated",
                       ran |-> query, wrote |-> TRUE,
                       write_raised |-> write_result.kind = "raise",
                       last |-> query_last(last, query, outcome)]

\* ------------------------------------------------------- preview_table
\* A table identifier is a sequence of pieces of text; no piece is a part of
\* another one except as the tables below say.
NameTokens == {"preview ", "Preview ", "show ", "table ", " ", ".",
               "SALES", "sales", "PREVIEW_STATS"}

RECURSIVE NamesOfLength(_)
NamesOfLength(n) ==
    IF n = 0 THEN {<<>>}
    ELSE {Append(s, t) : s \in NamesOfLength(n - 1), t \in NameTokens}

TableNames == UNION {NamesOfLength(n) : n \in 1..MaxNameLen}

\* str.lower() and str.upper() of one piece.
LowerCase ==
    ("Preview " :> "preview ") @@ ("SALES" :> "sales") @@
    ("PREVIEW_STATS" :> "preview_stats")

UpperCase ==
    ("preview " :> "PREVIEW ") @@ ("Preview " :> "PREVIEW ") @@
    ("show " :> "SHOW ") @@ ("table " :> "TABLE ") @@
    ("preview" :> "PREVIEW") @@ ("Preview" :> "PREVIEW") @@
    ("show" :> "SHOW") @@ ("table" :> "TABLE") @@
    ("sales" :> "SALES") @@ ("preview_stats" :> "PREVIEW_STATS")

name_lower(name) ==
    [i \in 1..Len(name) |->
        IF name[i] \in DOMAIN LowerCase THEN LowerCase[name[i]] ELSE name[i]]

name_upper(name) ==
    [i \in 1..Len(name) |->
        IF name[i] \in DOMAIN UpperCase THEN UpperCase[name[i]] ELSE name[i]]

\* The pieces that end in a blank, without it.
Unblanked ==
    ("preview " :> "preview") @@ ("Preview " :> "Preview") @@
    ("show " :> "show") @@ ("table " :> "table")

RECURSIVE name_lstrip(_)
name_lstrip(name) ==
    IF name # <<>> /\ Head(name) = " " THEN name_lstrip(Tail(name)) ELSE name

RECURSIVE name_rstrip(_)
name_rstrip(name) ==
    IF name = <<>> THEN name
    ELSE LET last  == name[Len(name)]
             front == SubSeq(name, 1, Len(name) - 1)
         IN  IF last = " " THEN name_rstrip(front)
             ELSE IF last \in DOMAIN Unblanked
                  THEN Append(front, Unblanked[last])
                  ELSE name

\* str.strip()
name_strip(name) == name_lstrip(name_rstrip(name))

\* The leading phrases, in the order the loop tries them.
PREFIXES == << <<"preview ", "table ">>, <<"preview ">>, <<"show ", "table ">>,
               <<"show ">>, <<"table ">> >>

\* str.startswith(prefix)
startswith(name, prefix) ==
    /\ Len(prefix) <= Len(name)
    /\ SubSeq(name, 1, Len(prefix)) = prefix

\* One turn of the loop: table_name[len(prefix):].strip() when the
\* lower-cased name starts with the prefix.
strip_prefix(name, prefix) ==
    IF startswith(name_lower(name), prefix)
    THEN name_strip(SubSeq(name, Len(prefix) + 1, Len(name)))
    ELSE name

RECURSIVE strip_prefixes(_, _)
strip_prefixes(name, i) ==
    IF i > Len(PREFIXES) THEN name
    ELSE strip_prefixes(strip_prefix(name, PREFIXES[i]), i + 1)

\* The pieces that hold the text "preview"; each of them starts with it.
HoldsPreview == {"preview ", "preview", "preview_stats"}

\* "preview" in table_name.lower(), and then
\* table_name.lower().split("preview")[0].strip()
cut_preview(name) ==
    LET low  == name_lower(name)
        hits == {i \in 1..Len(low) : low[i] \in HoldsPreview}
    IN  IF hits = {} THEN name
        ELSE LET first == CHOOSE i \in hits : \A j \in hits : i <= j
             IN  name_strip(SubSeq(low, 1, first - 1))

\* The name the lookup is made with.
sanitized_name(name) == name_strip(cut_preview(strip_prefixes(name, 1)))

\* '.' in table_name
qualified(name) == \E i \in 1..Len(name) : name[i] = "."

\* The statements preview_table hands to toolkit.snowflake.query.
Select(name)        == [verb |-> "SELECT * FROM", name |-> name]
ShowTables(name)    == [verb |-> "SHOW TABLES LIKE", name |-> name]
ShowSchemas(name)   == [verb |-> "SHOW SCHEMAS LIKE", name |-> name]
ShowDatabases(name) == [verb |-> "SHOW DATABASES LIKE", name |-> name]

\* What the warehouse answers to a SHOW statement: the rows of the catalogue.
Listing(rows) == [kind |-> "listing", rows |-> rows]

Analytics == [database_name |-> "WAREHOUSE", schema_name |-> "ANALYTICS",
              name |-> "SALES"]
Public    == [database_name |-> "WAREHOUSE", schema_name |-> "PUBLIC",
              name |-> "SALES"]
Unplaced  == [database_name |-> "", schema_name |-> "ANALYTICS", name |-> "SALES"]

TableListings ==
    {Listing(<<>>), Listing(<<Analytics>>), Listing(<<Public, Analytics>>),
     Listing(<<Unplaced>>), Raises("SQL compilation error")}

ContainerListings ==
    {Listing(<<>>), Listing(<<[name |-> "SALES"]>>), Raises("SQL compilation error")}

FetchOutcomes == {Rows(2), Raises("SQL compilation error")}

\* What the warehouse answers to each statement of one preview_table call.
Warehouses ==
    [direct : FetchOutcomes, like : TableListings, like_upper : TableListings,
     fetch : FetchOutcomes, schemas : ContainerListings, dbs : ContainerListings]

\* The answers a call can ask for, given the earlier ones: the second search
\* is made after an empty first listing, the fetch of the table found after a
\* listing whose first row is placed, the container searches otherwise.
Placed(listing) ==
    /\ listing.kind = "listing"
    /\ listing.rows # <<>>
    /\ listing.rows[1].database_name # ""
    /\ listing.rows[1].schema_name # ""
    /\ listing.rows[1].name # ""

Asks(w) ==
    LET searched  == w.direct.kind = "raise"
        retried   == searched /\ w.like.kind = "listing" /\ w.like.rows = <<>>
        tables    == IF retried THEN w.like_upper ELSE w.like
        found     == searched /\ Placed(tables)
        contained == searched /\ tables.kind = "listing" /\ ~found
    IN  [like |-> searched, like_upper |-> retried, fetch |-> found,
         schemas |-> contained, dbs |-> contained]

\* One warehouse for all that differ only in answers the call never asks for.
WarehouseCases ==
    {w \in Warehouses :
        /\ Asks(w).like \/ w.like = Listing(<<>>)
        /\ Asks(w).like_upper \/ w.like_upper = Listing(<<>>)
        /\ Asks(w).fetch \/ w.fetch = Rows(2)
        /\ Asks(w).schemas \/ w.schemas = Listing(<<>>)
        /\ Asks(w).dbs \/ w.dbs = Listing(<<>>)}

\* No statement handed to the warehouse yet.
NoWarehouse ==
    [direct |-> Rows(2), like |-> Listing(<<>>), like_upper |-> Listing(<<>>),
     fetch |-> Rows(2), schemas |-> Listing(<<>>), dbs |-> Listing(<<>>)]

Issued(statement, answer) == [statement |-> statement, answer |-> answer]

\* What preview_table did and answered: the name it looked up, the statements
\* it issued with their answers, the kind of text returned, the name the rows
\* returned were selected from, and the name the text says they were found in.
Answer(name, issued, kind, source, note) ==
    [name |-> name, issued |-> issued, kind |-> kind, source |-> source,
     note |-> note]

NoResolution == Answer(<<>>, <<>>, "", <<>>, <<>>)

\* f"{db}.{schema}.{name}"
fqn_of(target) ==
    <<target.database_name, ".", target.schema_name, ".", target.name>>

\* The preview of the table the search found, without the note.
found_preview_Silent(name, target, fetch, issued) ==
    LET fqn  == fqn_of(target)
        done == Append(issued, Issued(Select(fqn), fetch))
    IN  IF fetch.kind = "rows"
        THEN Answer(name, done, "preview", fqn, <<>>)
        ELSE Answer(name, done, "error", <<>>, <<>>)

\* The table the search found: the rows are selected from fqn and the text
\* starts with "Note: Table found in {fqn}"; an exception of the fetch reaches
\* the outer except clause.
found_preview(name, target, fetch, issued) ==
    LET fqn  == fqn_of(target)
        done == Append(issued, Issued(Select(fqn), fetch))
    IN  IF fetch.kind = "rows"
        THEN Answer(name, done, "preview", fqn, fqn)
        ELSE Answer(name, done, "error", <<>>, <<>>)

\* The module binds neither list_tables nor list_schemas: evaluating either
\* name raises NameError, inside the try whose bare except passes.
list_tables(schema_name) == Raises("NameError")
list_schemas(database_name) == Raises("NameError")

\* The tools the text of an answer tells the caller to use next: the not-found
\* text says "Use list_tables() to see available tables".
remedies(kind) == IF kind = "not_found" THEN {"list_tables"} ELSE {}

\* The container searches, answering a name that matched nothing with rows.
containers_Silent(name, env, issued) ==
    LET after_schemas == Append(issued, Issued(ShowSchemas(name), env.schemas))
        after_dbs     == Append(after_schemas, Issued(ShowDatabases(name), env.dbs))
    IN  Answer(name, after_dbs, "preview", name, <<>>)

\* SHOW SCHEMAS LIKE, then SHOW DATABASES LIKE, then the not-found text.
containers(name, env, issued) ==
    LET after_schemas == Append(issued, Issued(ShowSchemas(name), env.schemas))
        after_dbs     == Append(after_schemas, Issued(ShowDatabases(name), env.dbs))
    IN  IF /\ env.schemas.kind = "listing"
           /\ env.schemas.rows # <<>>
           /\ list_tables(name).kind # "raise"
        THEN Answer(name, after_schemas, "schema", <<>>, <<>>)
        ELSE IF /\ env.dbs.kind = "listing"
                /\ env.dbs.rows # <<>>
                /\ list_schemas(name).kind # "raise"
             THEN Answer(name, after_dbs, "database", <<>>, <<>>)
             ELSE Answer(name, after_dbs, "not_found", <<>>, <<>>)

\* The account-wide search: the name as given, then upper-cased when the
\* first listing is empty; the first row with a database, a schema and a name
\* is previewed.
table_search(name, env, issued) ==
    LET first == Append(issued, Issued(ShowTables(name), env.like))
    IN  IF env.like.kind = "raise"
        THEN Answer(name, first, "error", <<>>, <<>>)
        ELSE LET retry  == env.like.rows = <<>>
                 second == IF retry
                           THEN Append(first, Issued(ShowTables(name_upper(name)),
                                                     env.like_upper))
                           ELSE first
             IN  IF retry /\ env.like_upper.kind = "raise"
                 THEN Answer(name, second, "error", <<>>, <<>>)
                 ELSE LET tables == IF retry THEN env.like_upper.rows
                                    ELSE env.like.rows
                      IN  IF /\ tables # <<>>
                             /\ tables[1].database_name # ""
                             /\ tables[1].schema_name # ""
                             /\ tables[1].name # ""
                          THEN found_preview(name, tables[1], env.fetch, second)
                          ELSE containers(name, env, second)

\* The direct fetch with the sanitized name.
direct_fetch(name, env) == <<Issued(Select(name), env.direct)>>

preview_table(name_in, env) ==
    LET name == sanitized_name(name_in)
    IN  IF env.direct.kind = "rows"
        THEN Answer(name, direct_fetch(name, env), "preview", name, <<>>)
        ELSE IF qualified(name)
             THEN Answer(name, direct_fetch(name, env), "error", <<>>, <<>>)
             ELSE table_search(name, env, direct_fetch(name, env))

\* ------------------------------------------------------- send_campaign_emails
\* What the email column of a sheet row holds; "n/a" is the one without "@".
Addresses == {"ann@x.io", "bob@x.io", "n/a"}

HasAt(address) == address # "n/a"

RECURSIVE RowsOfLength(_)
RowsOfLength(n) ==
    IF n = 0 THEN {<<>>}
    ELSE {Append(s, a) : s \in RowsOfLength(n - 1), a \in Addresses}

SheetRows == UNION {RowsOfLength(n) : n \in 0..MaxRows}

\* What stops the call before the email list is complete.
Faults == {"none", "smtp_unset", "read_raises", "no_email_column", "template_key"}

\* The arguments, the configuration and the sheet of one call.
Campaigns ==
    [rows : SheetRows, user_email : {"", "me@x.io"}, test_mode : BOOLEAN,
     dry_run : BOOLEAN, fault : Faults]

NoCampaign == [rows |-> <<>>, user_email |-> "", test_mode |-> TRUE,
               dry_run |-> TRUE, fault |-> "none"]

Email(to, verification) == [to |-> to, verification |-> verification]

\* The email list: one entry per row whose address holds "@".
RECURSIVE recipients(_)
recipients(rows) ==
    IF rows = <<>> THEN <<>>
    ELSE IF HasAt(Head(rows))
         THEN <<Email(Head(rows), FALSE)>> \o recipients(Tail(rows))
         ELSE recipients(Tail(rows))

\* The verification copy, put after the recipients.
with_verification_Appended(emails, user_email) ==
    IF user_email # "" /\ emails # <<>>
    THEN Append(emails, Email(user_email, TRUE))
    ELSE emails

\* emails_to_send.insert(0, ...) when google_sheets_user_email is set.
with_verification(emails, user_email) ==
    IF user_email # "" /\ emails # <<>>
    THEN <<Email(user_email, TRUE)>> \o emails
    ELSE emails

TEST_MODE_LIMIT == 3

\* emails_to_send[:3] in test mode.
apply_test_mode(emails, test_mode) ==
    IF test_mode /\ Len(emails) > TEST_MODE_LIMIT
    THEN SubSeq(emails, 1, TEST_MODE_LIMIT)
    ELSE emails

emails_to_send(c) ==
    apply_test_mode(with_verification(recipients(c.rows), c.user_email),
                    c.test_mode)

\* What the SMTP server does: the connection and login, each send_message by
\* its place in the list, and quit.
SmtpServers ==
    [connect : {"ok", "raise"}, accepts : [1..(MaxRows + 1) -> BOOLEAN],
     quit : {"ok", "raise"}]

\* What the call did: the kind of text returned, the connections opened, the
\* messages handed to send_message, and those it accepted.
Outbox(kind, connections, handed, sent) ==
    [kind |-> kind, connections |-> connections, handed |-> handed, sent |-> sent]

NoOutbox == Outbox("", 0, <<>>, <<>>)

RECURSIVE accepted(_, _, _)
accepted(emails, smtp, i) ==
    IF i > Len(emails) THEN <<>>
    ELSE IF smtp.accepts[i]
         THEN <<emails[i]>> \o accepted(emails, smtp, i + 1)
         ELSE accepted(emails, smtp, i + 1)

\* The live send: connect and log in, hand every message to send_message
\* (one that raises is noted as failed and the loop goes on), then quit.
live_send(emails, smtp) ==
    IF smtp.connect = "raise"
    THEN Outbox("smtp_error", 1, <<>>, <<>>)
    ELSE Outbox(IF smtp.quit = "raise" THEN "smtp_error" ELSE "report",
                1, emails, accepted(emails, smtp, 1))

send_campaign_emails(c, smtp) ==
    IF c.fault = "smtp_unset" THEN Outbox("not_configured", 0, <<>>, <<>>)
    ELSE IF c.fault = "read_raises" THEN Outbox("no_access", 0, <<>>, <<>>)
    ELSE IF c.rows = <<>> THEN Outbox("no_data", 0, <<>>, <<>>)
    ELSE IF c.fault = "no_email_column"
         THEN Outbox("no_email_column", 0, <<>>, <<>>)
    ELSE IF c.fault = "template_key" /\ recipients(c.rows) # <<>>
         THEN Outbox("template_error", 0, <<>>, <<>>)
    ELSE IF recipients(c.rows) = <<>> THEN Outbox("no_addresses", 0, <<>>, <<>>)
    ELSE IF c.dry_run THEN Outbox("preview", 0, <<>>, <<>>)
    ELSE live_send(emails_to_send(c), smtp)

\* ------------------------------------------------------- state
VARIABLES
    mcp,            \* the FastMCP registry of the process
    gemini_tools,   \* Agent.gemini_tools
    ctx,            \* the InvocationContext of the request
    pc,             \* where the agent is
    state,          \* the loop state of spec section 4.1
    contents,       \* run_async: the turn sequence
    response,       \* run_async: the oracle response being looked at
    tool_responses, \* run_async: results of the calls of this turn
    events,         \* what run_async has yielded
    request,        \* the contents and tools of the latest oracle call
    oracle_calls,   \* generate_content calls made
    tool_turns,     \* tool-calling responses the oracle has given
    oracle_budget,  \* function calls this oracle asks for at most
    tool_calls,     \* _execute_tool calls made
    exc,            \* the exception travelling to the except clause
    raised,         \* the caller saw an exception
    call,           \* SpecExec: the call handed to _execute_tool
    ret             \* SpecExec: what _execute_tool returned

\* The tool layer below the agent.
VARIABLES
    schema,         \* sanitize_schema: the parameter schema handed in
    clean,          \* sanitize_schema: the schema returned
    domain,         \* ErrorHandler: the table the exception is matched against
    error,          \* ErrorHandler: the text of the exception
    classification, \* ErrorHandler: the triple returned
    file,           \* resources.json
    resources,      \* ResourceManager.resources of every instance
    saving,         \* the save_alias call an instance is in
    saves,          \* save_alias calls started
    saved,          \* what save_alias was given last, per instance and alias
    got,            \* the latest get_id call and its result
    last_executed_query, \* SnowflakeClient.last_executed_query of every tool module
    executed,       \* the latest statement the warehouse executed successfully
    api_result,     \* what the latest spreadsheet write call reported
    reply,          \* what the latest tool call answered
    caller,         \* the conversation the latest tool call was made for
    given,          \* the statements each conversation has handed to a tool
    table_name,     \* preview_table: the identifier handed in
    resolution,     \* preview_table: the statements issued and the answer
    warehouse,      \* preview_table: what the warehouse answers to each statement
    campaign,       \* send_campaign_emails: the arguments, configuration and sheet
    outbox          \* send_campaign_emails: what reached the SMTP server

agent_vars == <<mcp, gemini_tools, ctx, state, contents, response,
                tool_responses, events, request, oracle_calls, tool_turns,
                oracle_budget, tool_calls, exc, raised, call, ret>>

schema_vars   == <<schema, clean>>
classify_vars == <<domain, error, classification>>

alias_vars    == <<file, resources, saving, saves, saved, got>>

export_vars   == <<last_executed_query, executed, api_result, reply, caller, given>>

resolve_vars  == <<table_name, resolution, warehouse>>

email_vars    == <<campaign, outbox>>

tool_vars == <<schema_vars, classify_vars, alias_vars, export_vars, resolve_vars,
              email_vars>>

vars == <<pc, agent_vars, tool_vars>>

NoSchema == Object(<<>>)

\* The parts of the tool layer at rest.
SchemaIdle ==
    /\ schema = NoSchema
    /\ clean = NoSchema

ClassifyIdle ==
    /\ domain = ""
    /\ error = <<>>
    /\ classification = NoneVal

Managers == 1..MaxManagers

NotConstructed == [constructed |-> FALSE, map |-> NoAliases]
Constructed(map) == [constructed |-> TRUE, map |-> map]

NoGot == [manager |-> 0, key |-> "", value |-> ""]

\* No ResourceManager constructed yet, over the given resources.json; entry
\* 0 of saved holds what earlier processes saved.
AliasInit(f) ==
    /\ file = f
    /\ resources = [m \in Managers |-> NotConstructed]
    /\ saving = [m \in Managers |-> "idle"]
    /\ saves = 0
    /\ saved = [m \in 0..MaxManagers |-> IF m = 0 THEN f.map ELSE NoAliases]
    /\ got = NoGot

AliasIdle == AliasInit(Missing)

\* Every SnowflakeClient as constructed, and no tool called yet.
\* The conversations the process serves; each run_async call builds its own
\* contents and all of them call the tools of the same modules.
Conversations == 1..MaxConversations

ExportIdle ==
    /\ last_executed_query = [t \in ToolModules |-> None]
    /\ executed = None
    /\ api_result = NoWrite
    /\ reply = NoReply
    /\ caller = 0
    /\ given = [c \in Conversations |-> {}]

\* preview_table not called yet.
ResolveIdle ==
    /\ table_name = <<>>
    /\ resolution = NoResolution
    /\ warehouse = NoWarehouse

\* send_campaign_emails not called yet.
EmailIdle ==
    /\ campaign = NoCampaign
    /\ outbox = NoOutbox

ToolsIdle ==
    /\ SchemaIdle
    /\ ClassifyIdle
    /\ AliasIdle
    /\ ExportIdle
    /\ ResolveIdle
    /\ EmailIdle

NoRequest == [contents |-> <<>>, tools |-> <<>>]
NoCall == [tool_name |-> "", args |-> "", lookup |-> [kind |-> "", text |-> ""],
           behaviour |-> Return(NoneVal)]
NoRet == Returned(NoneVal, FALSE)

\* Catalogues: at most MaxTools tools, registered in a fixed order.
ToolOrder == <<"get_account_info", "save_resource_alias", "read_google_sheet">>

ToolMaps ==
    UNION { {[i \in 1..k |-> Tool(ToolOrder[i], f[i])] : f \in [1..k -> BOOLEAN]}
            : k \in 0..(IF MaxTools < Len(ToolOrder) THEN MaxTools ELSE Len(ToolOrder)) }

Catalogues ==
    {Registry("none", <<>>), Registry("unreachable", <<>>)} \cup
    {Registry(k, t) : k \in {"private", "public"}, t \in ToolMaps}

DefaultCatalogue == Registry("private", <<Tool("get_account_info", TRUE)>>)
DefaultCtx ==
    [user_content |-> [kind |-> "str", text |-> <<"hi">>, role |-> ""],
     events |-> <<SessionEvent(AGENT_NAME, "content", "")>>]

Contexts ==
    {[user_content |-> u, events |-> h] :
        u \in UserMessages, h \in SeqsUpTo(SessionEvents, MaxHist)}

\* The process before the Agent is constructed, for a registry and a
\* request drawn from the given sets.
InitWith(registries, requests, budget) ==
    /\ mcp \in registries
    /\ ctx \in requests
    /\ oracle_budget = budget
    /\ gemini_tools = <<>>
    /\ pc = "new"
    /\ state = "AWAITING_INPUT"
    /\ contents = <<>>
    /\ response = NoCandidates
    /\ tool_responses = <<>>
    /\ events = <<>>
    /\ request = NoRequest
    /\ oracle_calls = 0
    /\ tool_turns = 0
    /\ tool_calls = 0
    /\ exc = ""
    /\ raised = FALSE
    /\ call = NoCall
    /\ ret = NoRet
    /\ ToolsIdle

\* An oracle that asks for as many calls as the bound allows, on the
\* default request and catalogue; and an oracle that asks for one call, on any
\* request against the default catalogue and on the default request against
\* any catalogue.
Init ==
    \/ InitWith({DefaultCatalogue}, {DefaultCtx}, MaxCalls)
    \/ InitWith({DefaultCatalogue}, Contexts, 1)
    \/ InitWith(Catalogues, {DefaultCtx}, 1)

\* The default catalogue with a request that carries a message and one that
\* carries none.
FairInit ==
    InitWith({DefaultCatalogue},
             {DefaultCtx, [user_content |-> NoMessage, events |-> <<>>]},
             MaxCalls)

\* ------------------------------------------------------- events
PromptEvent    == [kind |-> "prompt", text |-> <<"Please provide a message.">>]
AnswerEvent(t) == [kind |-> "answer", text |-> t]
NoOpEvent      == [kind |-> "noop", text |-> <<>>]
ApologyEvent(e) == [kind |-> "apology", text |-> <<"An error occurred: " \o e>>]

\* func_calls and text_parts of a candidate's parts.
func_calls(parts) == SelectSeq(parts, IsCall)

HasText(p) == p.kind = "text" /\ p.text # <<>>

RECURSIVE Texts(_)
Texts(parts) ==
    IF parts = <<>> THEN <<>> ELSE <<Head(parts).text>> \o Texts(Tail(parts))

text_parts(parts) == Texts(SelectSeq(parts, HasText))

\* self._clean_response(text) for every joined text an oracle answer can
\* carry, worked out once.
CleanedAnswer ==
    [text \in {join(text_parts(a.content.parts)) : a \in Answers} |->
        _clean_response(text)]

\* tools=self.gemini_tools or None
ToolsOrNone(tools) == [declared |-> tools # <<>>, tools |-> tools]

\* ------------------------------------------------------- actions
\* Agent.__init__: the tool declarations are built once, at construction.
Construct ==
    /\ pc = "new"
    /\ LET built == build_gemini_tools_from_mcp(mcp)
       IN  IF built.raised
           THEN /\ raised' = TRUE
                /\ pc' = "crashed"
                /\ UNCHANGED gemini_tools
           ELSE /\ gemini_tools' = built.tools
                /\ pc' = "ready"
                /\ UNCHANGED raised
    /\ UNCHANGED <<mcp, ctx, oracle_budget, state, contents, response, tool_responses, events,
                   request, oracle_calls, tool_turns, tool_calls, exc, call, ret>>
    /\ UNCHANGED tool_vars

\* run_async up to the first oracle call: without a user message the prompt
\* is yielded and the generator returns; otherwise the turn sequence is the
\* history followed by the user message.
RunStart ==
    /\ pc = "ready"
    /\ IF ~Truthy(ctx.user_content)
       THEN /\ events' = Append(events, PromptEvent)
            /\ pc' = "done"
            /\ UNCHANGED <<contents, state>>
       ELSE /\ contents' = Append(_get_history(ctx.events),
                                  UserTurn(ctx.user_content))
            /\ state' = "GENERATING"
            /\ pc' = "generate"
            /\ UNCHANGED events
    /\ UNCHANGED <<mcp, gemini_tools, ctx, oracle_budget, response, tool_responses, request,
                   oracle_calls, tool_turns, tool_calls, exc, raised, call, ret>>
    /\ UNCHANGED tool_vars

\* What the oracle may answer: it asks for at most oracle_budget function
\* calls in a run, and for at most MaxParts parts in one response.
OracleResponses ==
    {NoCandidates, EmptyCandidate} \cup Answers \cup
    {r \in ToolRequests :
        /\ Len(r.content.parts) <= MaxParts
        /\ tool_calls + Asked(r) <= oracle_budget}

\* await asyncio.to_thread(generate_content, contents=contents, ...): the
\* oracle answers or the call raises.
GenerateContent ==
    /\ pc = "generate"
    /\ request' = [contents |-> contents, tools |-> ToolsOrNone(gemini_tools)]
    /\ oracle_calls' = oracle_calls + 1
    /\ \/ \E r \in OracleResponses :
            /\ response' = r
            /\ pc' = "inspect"
            /\ UNCHANGED exc
       \/ \E e \in OracleErrors :
            /\ exc' = e
            /\ pc' = "except"
            /\ UNCHANGED response
    /\ UNCHANGED <<mcp, gemini_tools, ctx, oracle_budget, state, contents, tool_responses,
                   events, tool_turns, tool_calls, raised, call, ret>>
    /\ UNCHANGED tool_vars

\* Inspect that yields an event of its own before the tool calls of a turn
\* are executed.
Inspect_YieldsProgress ==
    /\ pc = "inspect"
    /\ LET parts == response.content.parts
       IN  IF response.candidates = 0 \/ ~response.has_content \/ parts = <<>>
           THEN /\ events' = Append(events, NoOpEvent)
                /\ state' = "ANSWERED"
                /\ pc' = "done"
                /\ UNCHANGED <<contents, tool_responses, tool_turns>>
           ELSE IF func_calls(parts) = <<>>
           THEN /\ events' =
                     IF text_parts(parts) # <<>>
                     THEN Append(events,
                            AnswerEvent(CleanedAnswer[join(text_parts(parts))]))
                     ELSE events
                /\ state' = "ANSWERED"
                /\ pc' = "done"
                /\ UNCHANGED <<contents, tool_responses, tool_turns>>
           ELSE /\ contents' = Append(contents, response.content)
                /\ tool_responses' = <<>>
                /\ tool_turns' = tool_turns + 1
                /\ state' = "CALLING_TOOLS"
                /\ pc' = "tools"
                /\ events' = Append(events, NoOpEvent)
    /\ UNCHANGED <<mcp, gemini_tools, ctx, oracle_budget, response, request, oracle_calls,
                   tool_calls, exc, raised, call, ret>>
    /\ UNCHANGED tool_vars

\* Inspect without contents.append(candidate.content): the model turn
\* never enters the turn sequence.
Inspect_DropsModelTurn ==
    /\ pc = "inspect"
    /\ LET parts == response.content.parts
       IN  IF response.candidates = 0 \/ ~response.has_content \/ parts = <<>>
           THEN /\ events' = Append(events, NoOpEvent)
                /\ state' = "ANSWERED"
                /\ pc' = "done"
                /\ UNCHANGED <<contents, tool_responses, tool_turns>>
           ELSE IF func_calls(parts) = <<>>
           THEN /\ events' =
                     IF text_parts(parts) # <<>>
                     THEN Append(events,
                            AnswerEvent(CleanedAnswer[join(text_parts(parts))]))
                     ELSE events
                /\ state' = "ANSWERED"
                /\ pc' = "done"
                /\ UNCHANGED <<contents, tool_responses, tool_turns>>
           ELSE /\ tool_responses' = <<>>
                /\ tool_turns' = tool_turns + 1
                /\ state' = "CALLING_TOOLS"
                /\ pc' = "tools"
                /\ UNCHANGED <<events, contents>>
    /\ UNCHANGED <<mcp, gemini_tools, ctx, oracle_budget, response, request, oracle_calls,
                   tool_calls, exc, raised, call, ret>>
    /\ UNCHANGED tool_vars

\* Inspect with continue for break on a candidate without content: the
\* loop looks at the same response again and again.
Inspect_Continue ==
    /\ pc = "inspect"
    /\ LET parts == response.content.parts
       IN  IF response.candidates = 0
           THEN /\ events' = Append(events, NoOpEvent)
                /\ state' = "ANSWERED"
                /\ pc' = "done"
                /\ UNCHANGED <<contents, tool_responses, tool_turns>>
           ELSE IF ~response.has_content \/ parts = <<>>
           THEN UNCHANGED <<events, state, pc, contents, tool_responses, tool_turns>>
           ELSE IF func_calls(parts) = <<>>
           THEN /\ events' =
                     IF text_parts(parts) # <<>>
                     THEN Append(events,
                            AnswerEvent(CleanedAnswer[join(text_parts(parts))]))
                     ELSE events
                /\ state' = "ANSWERED"
                /\ pc' = "done"
                /\ UNCHANGED <<contents, tool_responses, tool_turns>>
           ELSE /\ contents' = Append(contents, response.content)
                /\ tool_responses' = <<>>
                /\ tool_turns' = tool_turns + 1
                /\ state' = "CALLING_TOOLS"
                /\ pc' = "tools"
                /\ UNCHANGED events
    /\ UNCHANGED <<mcp, gemini_tools, ctx, oracle_budget, response, request, oracle_calls,
                   tool_calls, exc, raised, call, ret>>
    /\ UNCHANGED tool_vars

\* The head of the tool-call loop: no candidate or an empty one ends the
\* turn with the no-op event; a response without calls is the final answer;
\* otherwise the model turn is appended and its calls are executed.
Inspect ==
    /\ pc = "inspect"
    /\ LET parts == response.content.parts
       IN  IF response.candidates = 0 \/ ~response.has_content \/ parts = <<>>
           THEN /\ events' = Append(events, NoOpEvent)
                /\ state' = "ANSWERED"
                /\ pc' = "done"
                /\ UNCHANGED <<contents, tool_responses, tool_turns>>
           ELSE IF func_calls(parts) = <<>>
           THEN /\ events' =
                     IF text_parts(parts) # <<>>
                     THEN Append(events,
                            AnswerEvent(CleanedAnswer[join(text_parts(parts))]))
                     ELSE events
                /\ state' = "ANSWERED"
                /\ pc' = "done"
                /\ UNCHANGED <<contents, tool_responses, tool_turns>>
           ELSE /\ contents' = Append(contents, response.content)
                /\ tool_responses' = <<>>
                /\ tool_turns' = tool_turns + 1
                /\ state' = "CALLING_TOOLS"
                /\ pc' = "tools"
                /\ UNCHANGED events
    /\ UNCHANGED <<mcp, gemini_tools, ctx, oracle_budget, response, request, oracle_calls,
                   tool_calls, exc, raised, call, ret>>
    /\ UNCHANGED tool_vars

\* One round of the for loop: dict(fc.args) raises on args None, otherwise
\* _execute_tool runs and its result is collected under the call's name.
\* An exception leaving either of them reaches the except clause.
ExecuteTool ==
    /\ pc = "tools"
    /\ Len(tool_responses) < Len(func_calls(response.content.parts))
    /\ LET fc == func_calls(response.content.parts)[Len(tool_responses) + 1]
       IN  IF fc.args = "None"
           THEN /\ exc' = NoneArgsError
                /\ pc' = "except"
                /\ UNCHANGED <<tool_responses, tool_calls>>
           ELSE \E lookup \in Lookups(Registered(mcp), fc.name),
                   behaviour \in RunBehaviours :
                    LET result == _execute_tool(fc.name, lookup, behaviour)
                    IN  /\ tool_calls' = tool_calls + 1
                        /\ IF result.raised
                           THEN /\ exc' = result.text
                                /\ pc' = "except"
                                /\ UNCHANGED tool_responses
                           ELSE /\ tool_responses' =
                                     Append(tool_responses,
                                            ResponsePart(fc.name, result.value))
                                /\ UNCHANGED <<exc, pc>>
    /\ UNCHANGED <<mcp, gemini_tools, ctx, oracle_budget, state, contents, response, events,
                   request, oracle_calls, tool_turns, raised, call, ret>>
    /\ UNCHANGED tool_vars

\* FeedBack placed inside the for loop: the results collected so far go
\* back as soon as there is one.
FeedBack_Early ==
    /\ pc = "tools"
    /\ Len(tool_responses) >= 1
    /\ contents' = Append(contents, Content("user", tool_responses))
    /\ state' = "GENERATING"
    /\ pc' = "generate"
    /\ UNCHANGED <<mcp, gemini_tools, ctx, oracle_budget, response, tool_responses, events,
                   request, oracle_calls, tool_turns, tool_calls, exc, raised,
                   call, ret>>
    /\ UNCHANGED tool_vars

\* The results go back as one user turn and the oracle is asked again.
FeedBack ==
    /\ pc = "tools"
    /\ Len(tool_responses) = Len(func_calls(response.content.parts))
    /\ contents' = Append(contents, Content("user", tool_responses))
    /\ state' = "GENERATING"
    /\ pc' = "generate"
    /\ UNCHANGED <<mcp, gemini_tools, ctx, oracle_budget, response, tool_responses, events,
                   request, oracle_calls, tool_turns, tool_calls, exc, raised,
                   call, ret>>
    /\ UNCHANGED tool_vars

\* The except clause logging and re-raising: the caller gets the exception.
HandleException_Reraise ==
    /\ pc = "except"
    /\ raised' = TRUE
    /\ state' = "FAILED"
    /\ pc' = "done"
    /\ UNCHANGED <<mcp, gemini_tools, ctx, oracle_budget, contents, response, tool_responses,
                   request, oracle_calls, tool_turns, tool_calls, exc, events,
                   call, ret>>
    /\ UNCHANGED tool_vars

\* except Exception as e: the apology is yielded and the generator ends.
HandleException ==
    /\ pc = "except"
    /\ events' = Append(events, ApologyEvent(exc))
    /\ state' = "FAILED"
    /\ pc' = "done"
    /\ UNCHANGED <<mcp, gemini_tools, ctx, oracle_budget, contents, response, tool_responses,
                   request, oracle_calls, tool_turns, tool_calls, exc, raised,
                   call, ret>>
    /\ UNCHANGED tool_vars

Next ==
    \/ Construct
    \/ RunStart
    \/ GenerateContent
    \/ Inspect
    \/ ExecuteTool
    \/ FeedBack
    \/ HandleException

Spec == Init /\ [][Next]_vars

\* The event loop resumes the coroutine whenever it can go on.
FairSpec == FairInit /\ [][Next]_vars /\ WF_vars(Next)

\* ------------------------------------------------------- SpecExec
\* Every call _execute_tool can receive against a registry holding ToolNames.
Calls ==
    {[tool_name |-> n, args |-> a, lookup |-> l, behaviour |-> b] :
        n \in ToolNames \cup UnknownNames, a \in ArgKinds,
        l \in UNION {Lookups(ToolNames, m) : m \in ToolNames \cup UnknownNames},
        b \in UNION {ToolBehaviours(k) : k \in ArgKinds}}

WellFormedCall(c) ==
    /\ c.lookup \in Lookups(ToolNames, c.tool_name)
    /\ IF c.lookup.kind = "tool"
       THEN c.behaviour \in ToolBehaviours(c.args)
       ELSE c.behaviour = Return(NoneVal)

InitExec ==
    /\ call \in {c \in Calls : WellFormedCall(c)}
    /\ ret = NoRet
    /\ pc = "call"
    /\ mcp = Registry("private", <<Tool("get_account_info", TRUE), Tool("save_resource_alias", TRUE)>>)
    /\ gemini_tools = <<>>
    /\ ctx = DefaultCtx
    /\ oracle_budget = 0
    /\ state = "CALLING_TOOLS"
    /\ contents = <<>>
    /\ response = NoCandidates
    /\ tool_responses = <<>>
    /\ events = <<>>
    /\ request = NoRequest
    /\ oracle_calls = 0
    /\ tool_turns = 0
    /\ tool_calls = 0
    /\ exc = ""
    /\ raised = FALSE
    /\ ToolsIdle

\* result = await self._execute_tool(tool_name, args)
Execute ==
    /\ pc = "call"
    /\ ret' = _execute_tool(call.tool_name, call.lookup, call.behaviour)
    /\ pc' = "returned"
    /\ UNCHANGED <<mcp, gemini_tools, ctx, oracle_budget, state, contents, response,
                   tool_responses, events, request, oracle_calls, tool_turns,
                   tool_calls, exc, raised, call>>
    /\ UNCHANGED tool_vars

NextExec == Execute

SpecExec == InitExec /\ [][NextExec]_vars

\* ------------------------------------------------------- SpecSchema
\* The agent at rest while the tool layer is exercised on its own.
AgentIdle ==
    /\ mcp = DefaultCatalogue
    /\ gemini_tools = <<>>
    /\ ctx = DefaultCtx
    /\ oracle_budget = 0
    /\ state = "AWAITING_INPUT"
    /\ contents = <<>>
    /\ response = NoCandidates
    /\ tool_responses = <<>>
    /\ events = <<>>
    /\ request = NoRequest
    /\ oracle_calls = 0
    /\ tool_turns = 0
    /\ tool_calls = 0
    /\ exc = ""
    /\ raised = FALSE
    /\ call = NoCall
    /\ ret = NoRet

InitSchema ==
    /\ AgentIdle
    /\ EmailIdle
    /\ ResolveIdle
    /\ ClassifyIdle
    /\ AliasIdle
    /\ ExportIdle
    /\ pc = "sanitize"
    /\ schema \in Schemas
    /\ clean = NoSchema

\* parameters=sanitize_schema(tool.parameters)
Sanitize ==
    /\ pc = "sanitize"
    /\ clean' = sanitize_schema(schema, TRUE)
    /\ pc' = "sanitized"
    /\ UNCHANGED <<agent_vars, schema, classify_vars, alias_vars, export_vars, resolve_vars, email_vars>>

NextSchema == Sanitize

SpecSchema == InitSchema /\ [][NextSchema]_vars

\* ------------------------------------------------------- SpecClassify
ErrorTexts(d) ==
    SeqsUpTo(IF d = "snowflake" THEN SnowflakeFragments ELSE SheetsFragments, MaxErrLen)

InitClassify ==
    /\ AgentIdle
    /\ EmailIdle
    /\ ResolveIdle
    /\ SchemaIdle
    /\ AliasIdle
    /\ ExportIdle
    /\ pc = "classify"
    /\ domain \in {"snowflake", "sheets"}
    /\ error \in ErrorTexts(domain)
    /\ classification = NoneVal

\* error_type, message, suggestions = handle_snowflake_error(e)
HandleSnowflakeError ==
    /\ pc = "classify"
    /\ domain = "snowflake"
    /\ classification' = handle_snowflake_error(error)
    /\ pc' = "classified"
    /\ UNCHANGED <<agent_vars, schema_vars, domain, error, alias_vars, export_vars, resolve_vars, email_vars>>

\* error_type, message, suggestions = handle_sheets_error(e)
HandleSheetsError ==
    /\ pc = "classify"
    /\ domain = "sheets"
    /\ classification' = handle_sheets_error(error)
    /\ pc' = "classified"
    /\ UNCHANGED <<agent_vars, schema_vars, domain, error, alias_vars, export_vars, resolve_vars, email_vars>>

NextClassify ==
    \/ HandleSnowflakeError
    \/ HandleSheetsError

SpecClassify == InitClassify /\ [][NextClassify]_vars

\* ------------------------------------------------------- SpecAlias
\* resources.json as an earlier process left it.
InitialFiles ==
    {Missing, Stored(NoAliases), Stored("q4_report" :> "1Sbjtqe0v0BAT")}

InitAlias ==
    /\ AgentIdle
    /\ EmailIdle
    /\ ResolveIdle
    /\ SchemaIdle
    /\ ClassifyIdle
    /\ ExportIdle
    /\ pc = "tools"
    /\ \E f \in InitialFiles : AliasInit(f)

\* ResourceManager(): __init__ loads the alias store from disk.
ConstructManager(m) ==
    /\ ~resources[m].constructed
    /\ resources' = [resources EXCEPT ![m] = Constructed(_load_resources(file))]
    /\ UNCHANGED <<file, saving, saves, saved, got>>
    /\ UNCHANGED <<pc, agent_vars, schema_vars, classify_vars, export_vars, resolve_vars, email_vars>>

\* save_alias up to the call of _save_resources: the entry is set in memory.
SaveAliasSet(m, alias, resource_id) ==
    /\ resources[m].constructed
    /\ saving[m] = "idle"
    /\ saves < MaxSaves
    /\ resources' = [resources EXCEPT
                        ![m].map = save_alias(resources[m].map, alias, resource_id)]
    /\ saving' = [saving EXCEPT ![m] = "open"]
    /\ saves' = saves + 1
    /\ saved' = [saved EXCEPT ![m] = (alias :> resource_id) @@ saved[m]]
    /\ got' = NoGot
    /\ UNCHANGED file
    /\ UNCHANGED <<pc, agent_vars, schema_vars, classify_vars, export_vars, resolve_vars, email_vars>>

\* _save_resources: open(self.file_path, "w") empties the file.
SaveOpen(m) ==
    /\ saving[m] = "open"
    /\ file' = Truncated
    /\ saving' = [saving EXCEPT ![m] = "dump"]
    /\ UNCHANGED <<resources, saves, saved, got>>
    /\ UNCHANGED <<pc, agent_vars, schema_vars, classify_vars, export_vars, resolve_vars, email_vars>>

\* _save_resources: json.dump(self.resources, f) and the close of the file;
\* save_alias returns.
SaveDump(m) ==
    /\ saving[m] = "dump"
    /\ file' = _save_resources(resources[m].map)
    /\ saving' = [saving EXCEPT ![m] = "idle"]
    /\ UNCHANGED <<resources, saves, saved, got>>
    /\ UNCHANGED <<pc, agent_vars, schema_vars, classify_vars, export_vars, resolve_vars, email_vars>>

\* get_id on an instance that is not inside save_alias.
GetId(m, alias_or_id) ==
    /\ resources[m].constructed
    /\ saving[m] = "idle"
    /\ got' = [manager |-> m, key |-> alias_or_id,
               value |-> get_id(resources[m].map, alias_or_id)]
    /\ UNCHANGED <<file, resources, saving, saves, saved>>
    /\ UNCHANGED <<pc, agent_vars, schema_vars, classify_vars, export_vars, resolve_vars, email_vars>>

NextAlias ==
    \/ \E m \in Managers : ConstructManager(m)
    \/ \E m \in Managers, a \in Aliases, r \in ResourceIds : SaveAliasSet(m, a, r)
    \/ \E m \in Managers : SaveOpen(m)
    \/ \E m \in Managers : SaveDump(m)
    \/ \E m \in Managers, k \in Aliases \cup ResourceIds : GetId(m, k)

SpecAlias == InitAlias /\ [][NextAlias]_vars

\* ------------------------------------------------------- SpecExport
InitExport ==
    /\ AgentIdle
    /\ EmailIdle
    /\ ResolveIdle
    /\ SchemaIdle
    /\ ClassifyIdle
    /\ AliasIdle
    /\ ExportIdle
    /\ pc = "tools"

\* _query_data_internal(query): toolkit.snowflake.query(query) on the Toolkit
\* of query_tools; an exception becomes the formatted error response.
QueryDataInternal(c, query, outcome) ==
    /\ caller' = c
    /\ given' = [given EXCEPT ![c] = @ \cup {query}]
    /\ last_executed_query' =
           [last_executed_query EXCEPT
               !["query_tools"] = query_last(last_executed_query["query_tools"],
                                             query, outcome)]
    /\ executed' = query_last(executed, query, outcome)
    /\ reply' = Reply("_query_data_internal", query,
                      IF outcome.kind = "rows" THEN "table" ELSE "error",
                      query, FALSE, executed)
    /\ api_result' = NoWrite
    /\ UNCHANGED <<pc, agent_vars, schema_vars, classify_vars, alias_vars, resolve_vars, email_vars>>

\* replicate_data_to_sheet(spreadsheet_id, sheet_name, query) on the Toolkit
\* of sheets_tools.
ReplicateDataToSheet(c, query, sheet, outcome, api) ==
    LET result == replicate_data_to_sheet(last_executed_query["sheets_tools"],
                                          query, sheet, outcome, api)
    IN  /\ last_executed_query' =
               [last_executed_query EXCEPT !["sheets_tools"] = result.last]
        /\ executed' = IF result.ran = None THEN executed
                       ELSE query_last(executed, result.ran, outcome)
        /\ api_result' = IF result.wrote THEN api ELSE NoWrite
        /\ reply' = Reply("replicate_data_to_sheet", query, result.kind, result.ran,
                          result.write_raised, executed)
        /\ caller' = c
        /\ given' = [given EXCEPT ![c] = @ \cup ({query} \ {None, ""})]
        /\ UNCHANGED <<pc, agent_vars, schema_vars, classify_vars, alias_vars, resolve_vars, email_vars>>

\* One conversation calling the tools.
NextExport ==
    \/ \E q \in Statements, o \in QueryOutcomes : QueryDataInternal(1, q, o)
    \/ \E q \in Statements \cup {None, ""}, sh \in SheetOutcomes,
          o \in QueryOutcomes, a \in WriteOutcomes :
            ReplicateDataToSheet(1, q, sh, o, a)

SpecExport == InitExport /\ [][NextExport]_vars

\* ------------------------------------------------------- SpecConversations
\* Several conversations of the same process calling the tools in any order.
NextConversations ==
    \/ \E c \in Conversations, q \in Statements, o \in QueryOutcomes :
            QueryDataInternal(c, q, o)
    \/ \E c \in Conversations, q \in Statements \cup {None, ""}, sh \in SheetOutcomes,
          o \in QueryOutcomes, a \in WriteOutcomes :
            ReplicateDataToSheet(c, q, sh, o, a)

SpecConversations == InitExport /\ [][NextConversations]_vars

\* ------------------------------------------------------- SpecResolve
InitResolve ==
    /\ AgentIdle
    /\ EmailIdle
    /\ SchemaIdle
    /\ ClassifyIdle
    /\ AliasIdle
    /\ ExportIdle
    /\ pc = "preview"
    /\ table_name \in TableNames
    /\ resolution = NoResolution
    /\ warehouse = NoWarehouse

\* preview_table(table_name) over a warehouse that answers as env says.
PreviewTable(env) ==
    /\ pc = "preview"
    /\ resolution' = preview_table(table_name, env)
    /\ warehouse' = env
    /\ pc' = "previewed"
    /\ UNCHANGED <<table_name, agent_vars, schema_vars, classify_vars, alias_vars,
                   export_vars, email_vars>>

NextResolve == \E env \in WarehouseCases : PreviewTable(env)

SpecResolve == InitResolve /\ [][NextResolve]_vars

\* ------------------------------------------------------- SpecEmail
InitEmail ==
    /\ AgentIdle
    /\ SchemaIdle
    /\ ClassifyIdle
    /\ AliasIdle
    /\ ExportIdle
    /\ ResolveIdle
    /\ pc = "campaign"
    /\ campaign \in Campaigns
    /\ outbox = NoOutbox

\* send_campaign_emails(...) against an SMTP server that behaves as smtp says.
SendCampaignEmails(smtp) ==
    /\ pc = "campaign"
    /\ outbox' = send_campaign_emails(campaign, smtp)
    /\ pc' = "campaigned"
    /\ UNCHANGED <<campaign, agent_vars, schema_vars, classify_vars, alias_vars,
                   export_vars, resolve_vars>>

NextEmail == \E smtp \in SmtpServers : SendCampaignEmails(smtp)

SpecEmail == InitEmail /\ [][NextEmail]_vars

\* ------------------------------------------------------- properties
IsPrefix(a, b) == Len(a) <= Len(b) /\ SubSeq(b, 1, Len(a)) = a

RECURSIVE Names(_)
Names(parts) ==
    IF parts = <<>> THEN <<>> ELSE <<Head(parts).name>> \o Names(Tail(parts))

\* Tool-call requests in a turn sequence.
RECURSIVE CallsIn(_)
CallsIn(turns) ==
    IF turns = <<>> THEN 0
    ELSE Len(func_calls(Head(turns).parts)) + CallsIn(Tail(turns))

IsResultTurn(turn) ==
    /\ turn.role = "user"
    /\ \A i \in DOMAIN turn.parts : turn.parts[i].kind = "function_response"

\* The agent is about to call the oracle again, after a tool-calling response.
NextOracleCallDue == pc = "generate" /\ oracle_calls >= 1

\* C1: when the oracle is called again after a response with n >= 1 tool
\* calls, every call has been executed and the last turn holds exactly n
\* tool results, named after the requests and in their order.
C1_ResultsBeforeNextCall ==
    NextOracleCallDue =>
        LET requested == func_calls(response.content.parts)
            last      == contents[Len(contents)]
        IN  /\ Len(requested) >= 1
            /\ IsResultTurn(last)
            /\ Len(last.parts) = Len(requested)
            /\ Names(last.parts) = Names(requested)
            /\ tool_calls = CallsIn(contents)

C1_Witness ==
    /\ NextOracleCallDue
    /\ Names(func_calls(response.content.parts)) = <<"nope", "get_account_info">>
    /\ Len(response.content.parts) = 2

\* C2: with an empty or absent user message run_async yields the prompt for
\* input, exactly once, and ends without any oracle call or tool execution.
NoInput ==
    \/ ctx.user_content.kind = "none"
    \/ ctx.user_content.kind = "str" /\ ctx.user_content.text = <<>>

C3_UnknownToolError ==
    (pc = "returned" /\ call.tool_name \notin ToolNames) =>
        ret = Returned(Dict1("error", Str(UnknownToolText(call.tool_name))), FALSE)

\* C4: for a registered tool and any value it returns _execute_tool returns
\* a mapping: a mapping (or a str holding a JSON object) as that mapping,
\* any other value wrapped as {result: value}.
C4_AlwaysMapping ==
    (pc = "returned" /\ call.lookup.kind = "tool" /\ call.behaviour.kind = "return") =>
        /\ ~ret.raised
        /\ IsMapping(ret.value)
        /\ ret.value.key = "result" =>
              ret.value.val.tag \notin {"dict"}

\* C5: when the function of a registered tool raises, also on arguments it
\* cannot take, _execute_tool returns {error: <exception text>} and lets no
\* exception out.
C5_ToolErrorReturned ==
    (pc = "returned" /\ call.lookup.kind = "tool" /\ call.behaviour.kind = "raise") =>
        /\ ~ret.raised
        /\ ret.value = Dict1("error", Str(call.behaviour.text))

C5_Witness ==
    /\ pc = "returned"
    /\ call.lookup.kind = "tool"
    /\ call.args = "unexpected"
    /\ ret.value = Dict1("error", Str(UnexpectedKw))

\* C6: an exception raised in run_async by an oracle call or while tools are
\* executed ends the run in FAILED with the apology, carrying the exception
\* text, as the only event; the caller never sees an exception.
C6_ExceptionBecomesApology ==
    /\ ~raised
    /\ pc = "except" => (exc # "" /\ events = <<>>)
    /\ (pc = "done" /\ exc # "") =>
          (state = "FAILED" /\ events = <<ApologyEvent(exc)>>)
    /\ state = "FAILED" => (pc = "done" /\ exc # "")

C6_Witness ==
    /\ pc = "done"
    /\ state = "FAILED"
    /\ exc = NoneArgsError
    /\ tool_calls >= 1
    /\ events = <<ApologyEvent(NoneArgsError)>>

\* C7: the turn sequence sent to the oracle starts as the persisted history
\* followed by the user input, and each later call sends the sequence of the
\* call before it extended by one model turn with tool calls and one
\* tool-result turn; nothing sent earlier is moved, dropped or replaced.
C7_AppendOnly ==
    [][ (oracle_calls' = oracle_calls + 1) =>
          IF oracle_calls = 0
          THEN request'.contents =
                  Append(_get_history(ctx.events), UserTurn(ctx.user_content))
          ELSE LET sent == request'.contents
                   n    == Len(sent)
               IN  /\ n = Len(request.contents) + 2
                   /\ IsPrefix(request.contents, sent)
                   /\ sent[n - 1].role = "model"
                   /\ func_calls(sent[n - 1].parts) # <<>>
                   /\ IsResultTurn(sent[n]) ]_vars

C7_Witness ==
    /\ oracle_calls = 3
    /\ Len(request.contents) = 6
    /\ request.contents[6].parts # <<>>
    /\ request.contents[1].role = "model"
    /\ request.contents[2] = UserTurn(ctx.user_content)

\* C8: the loop has no iteration cap of its own, and with an oracle that
\* asks for tools only finitely often every run ends: a run that reaches
\* GENERATING ends in ANSWERED or FAILED.
C8_Terminates ==
    /\ <>(pc = "done")
    /\ (state = "GENERATING") ~> (pc = "done" /\ state \in {"ANSWERED", "FAILED"})

C8_Witness ==
    /\ pc = "done"
    /\ state = "ANSWERED"
    /\ tool_calls = MaxCalls
    /\ tool_turns >= 1
    /\ oracle_calls = tool_turns + 1

\* Info strings that tag a code block as raw query language.
QueryTags == {"sql\n", "SQL\n", "snowflake\n"}

HasQueryBlock(text) ==
    \E i \in 1..(Len(text) - 1) : text[i] = FENCE /\ text[i + 1] \in QueryTags

\* C9: a response without tool calls ends the run in ANSWERED; the output is
\* the newline-joined text of the response with every code block tagged as
\* SQL or Snowflake removed, and nothing is called after it.
C9_AnswerWithoutQueryBlocks ==
    (pc = "done" /\ state = "ANSWERED" /\ text_parts(response.content.parts) # <<>>) =>
        /\ Len(events) = 1
        /\ events[1].kind = "answer"
        /\ ~HasQueryBlock(events[1].text)

\* Names declared to the oracle.
DeclaredNames(tools) ==
    IF tools = <<>> THEN <<>> ELSE Names(tools[1].function_declarations)

IsConvertible(tool) == tool.convertible

\* C10: build_gemini_tools_from_mcp never raises; it declares exactly the
\* tools that convert, in catalogue order, returns the empty list when none
\* does (or the catalogue is absent or unreachable), and the loop then
\* calls the oracle without tool declarations.
C10_BridgeNeverRaises ==
    /\ ~raised
    /\ pc # "crashed"
    /\ pc # "new" =>
          /\ DeclaredNames(gemini_tools) =
                Names(SelectSeq(IF mcp.kind \in {"private", "public"}
                                THEN mcp.tools ELSE <<>>, IsConvertible))
          /\ Len(gemini_tools) <= 1
          /\ gemini_tools # <<>> => gemini_tools[1].function_declarations # <<>>
    /\ oracle_calls >= 1 =>
          /\ request.tools.tools = gemini_tools
          /\ request.tools.declared = (gemini_tools # <<>>)

C10_Witness ==
    /\ mcp.kind = "private"
    /\ Len(mcp.tools) = 2
    /\ ~mcp.tools[1].convertible
    /\ mcp.tools[2].convertible
    /\ DeclaredNames(gemini_tools) = <<"save_resource_alias">>
    /\ oracle_calls >= 1

\* A dict in schema position holds the keyword additionalProperties, at
\* any depth: the values of properties and $defs map names to schemas, every
\* other dict and every list item is a schema.
RECURSIVE HasKeyword(_, _)
HasKeyword(x, is_map) ==
    IF x.t = "list" THEN \E i \in DOMAIN x.l : HasKeyword(x.l[i], FALSE)
    ELSE IF x.t # "dict" THEN FALSE
    ELSE IF is_map THEN \E k \in DOMAIN x.d : HasKeyword(x.d[k], FALSE)
    ELSE \/ "additionalProperties" \in DOMAIN x.d
         \/ \E k \in DOMAIN x.d : HasKeyword(x.d[k], k \in MapKeywords)

\* C11: the output of sanitize_schema holds no additionalProperties keyword
\* at any nesting level, in the root, a nested schema, an entry of a
\* properties map or a schema inside a list.
C11_NoAdditionalProperties ==
    pc = "sanitized" => ~HasKeyword(clean, FALSE)

\* Some key named title lies in x.
RECURSIVE HasTitle(_)
HasTitle(x) ==
    IF x.t = "list" THEN \E i \in DOMAIN x.l : HasTitle(x.l[i])
    ELSE IF x.t # "dict" THEN FALSE
    ELSE "title" \in DOMAIN x.d \/ \E k \in DOMAIN x.d : HasTitle(x.d[k])

\* Every title key of x below the root, except under the keys in dropped,
\* is a key of y at the same place, with the same value when it is a scalar.
RECURSIVE KeepsTitles(_, _, _, _)
KeepsTitles(x, y, is_root, dropped) ==
    IF x.t = "list"
    THEN /\ y.t = "list"
         /\ DOMAIN y.l = DOMAIN x.l
         /\ \A i \in DOMAIN x.l : KeepsTitles(x.l[i], y.l[i], FALSE, dropped)
    ELSE IF x.t # "dict" THEN TRUE
    ELSE /\ y.t = "dict"
         /\ \A k \in DOMAIN x.d \ dropped :
               /\ (k = "title" /\ ~is_root) =>
                      /\ k \in DOMAIN y.d
                      /\ x.d[k].t = "scalar" => y.d[k] = x.d[k]
               /\ (HasTitle(x.d[k]) /\ ~(k = "title" /\ is_root)) =>
                      /\ k \in DOMAIN y.d
                      /\ KeepsTitles(x.d[k], y.d[k], FALSE, dropped)

\* C12 as claimed: the title is removed at the root only, and every title
\* key at a nested level is in the output with its value.
C12_NestedTitlesKept ==
    pc = "sanitized" =>
        /\ "title" \notin DOMAIN clean.d
        /\ KeepsTitles(schema, clean, TRUE, {})

\* C12: the title is removed at the root only; every title key at a nested
\* level that does not lie under a removed additionalProperties key is in
\* the output, a property named title included, with its value.
C12_NestedTitlesKeptOutsideDropped ==
    pc = "sanitized" =>
        /\ "title" \notin DOMAIN clean.d
        /\ KeepsTitles(schema, clean, TRUE, {"additionalProperties"})

C12_Witness ==
    /\ pc = "sanitized"
    /\ schema = Object(("properties" :> Object("title" :> Object(Marks({"title"}))))
                       @@ Marks({"title", "additionalProperties"}))
    /\ clean = Object("properties" :> Object("title" :> Object(Marks({"title"}))))

\* The entries of the domain's table, in table order, and its fallback.
TableOf(d) == IF d = "snowflake" THEN SNOWFLAKE_ERRORS ELSE SHEETS_ERRORS

FallbackOf(d) == IF d = "snowflake" THEN SnowflakeFallback ELSE SheetsFallback

\* The text matches the pattern of entry i: a case-insensitive regular
\* expression search for Snowflake, a substring test for Sheets.
Matches(d, i, text) ==
    IF d = "snowflake"
    THEN re_search(lower(SNOWFLAKE_ERRORS[i].pattern), lower(text))
    ELSE Contains(SHEETS_ERRORS[i].pattern, text)

Matching(d, text) == {i \in DOMAIN TableOf(d) : Matches(d, i, text)}

IsTriple(x) == DOMAIN x = 1..3

\* C13: classify is total: every exception text is given a triple; a text
\* that matches a known pattern is given the triple of a pattern it matches
\* and a text that matches none the generic fallback of the domain.
C13_ClassifyTotal ==
    pc = "classified" =>
        /\ IsTriple(classification)
        /\ IF Matching(domain, error) = {}
           THEN classification = FallbackOf(domain)
           ELSE \E i \in Matching(domain, error) :
                    classification = Triple(TableOf(domain)[i].info)

C13_Witness ==
    /\ pc = "classified"
    /\ domain = "sheets"
    /\ error = <<"invalid_argument", " 'X' ">>
    /\ classification[1] = "GoogleSheetsError"

\* C14: a text that matches more than one pattern of the table is given the
\* triple of the pattern that comes first in table order.
C14_FirstInTableOrder ==
    (pc = "classified" /\ Matching(domain, error) # {}) =>
        \E i \in Matching(domain, error) :
            /\ \A j \in Matching(domain, error) : i <= j
            /\ classification = Triple(TableOf(domain)[i].info)

C14_Witness ==
    /\ pc = "classified"
    /\ domain = "snowflake"
    /\ error = <<"SQL compilation error", "does not exist", " or not authorized">>
    /\ Matching(domain, error) = {1, 2}
    /\ classification[1] = "TableNotFound"

\* Every alias some save_alias call was given, in this or an earlier process.
EverSaved == UNION {DOMAIN saved[m] : m \in DOMAIN saved}

\* C15: on a ResourceManager, get_id of an alias returns the id the latest
\* save_alias on it was given for that alias, and get_id of a key that was
\* never saved returns the key.
C15_AliasRoundTrip ==
    got # NoGot =>
        /\ got.key \in DOMAIN saved[got.manager] =>
               got.value = saved[got.manager][got.key]
        /\ got.key \notin EverSaved => got.value = got.key

C15_Witness ==
    /\ saves = 2
    /\ saved[1] = ("q4_report" :> "1AbCdEfGh")
    /\ saved[0] = NoAliases
    /\ saved[2] = NoAliases
    /\ got = [manager |-> 1, key |-> "q4_report", value |-> "1AbCdEfGh"]

\* C16: once every save_alias call has returned, resources.json holds every
\* alias that was saved, whatever the interleaving of the writers.
C16_NoLostAlias ==
    (\A m \in Managers : saving[m] = "idle") =>
        \A m \in Managers : DOMAIN saved[m] \subseteq DOMAIN file.map

\* The latest tool call was replicate_data_to_sheet without a query.
ReplicatedWithoutQuery ==
    reply.tool = "replicate_data_to_sheet" /\ Falsy(reply.query)

\* C17: replicate_data_to_sheet without a query runs the statement the
\* warehouse executed successfully last, and reports that there is no
\* previous query only when no statement was executed successfully before.
C17_LastStatementReused ==
    ReplicatedWithoutQuery =>
        /\ reply.kind = "no_previous_query" => reply.before = None
        /\ reply.ran # None => reply.ran = reply.before

\* The write call was made and reported no updated cell.
ZeroCellsReported ==
    /\ reply.tool = "replicate_data_to_sheet"
    /\ api_result.kind = "response"
    /\ (api_result.has_updatedCells => api_result.updatedCells = 0)

\* C18: when the spreadsheet write call reports updatedCells 0, or no
\* updatedCells, write_sheet raises and replicate_data_to_sheet answers
\* with a failure message, never with the success message.
C18_ZeroCellsIsFailure ==
    ZeroCellsReported =>
        /\ reply.write_raised
        /\ reply.kind \in {"error", "not_found"}

C18_Witness ==
    /\ ZeroCellsReported
    /\ api_result = NoCount
    /\ reply.ran = "SELECT 1"
    /\ reply.kind = "error"

\* C19: resolving an identifier that is already fully qualified (it holds the
\* qualifier separator) selects from that identifier, unchanged, and issues no
\* catalogue search, whatever text the identifier holds.
C19_QualifiedUnchanged ==
    (pc = "previewed" /\ qualified(table_name)) =>
        /\ Len(resolution.issued) = 1
        /\ resolution.issued[1].statement = Select(table_name)

\* The last account-wide table search of the call, 0 when there was none.
LastSearch(r) ==
    LET shows == {i \in 1..Len(r.issued) :
                     r.issued[i].statement.verb = "SHOW TABLES LIKE"}
    IN  IF shows = {} THEN 0 ELSE CHOOSE i \in shows : \A j \in shows : j <= i

\* C20: a preview returned after the account-wide search was made is selected
\* from the fully-qualified name of the table the search matched, and names it.
C20_SearchResultNamed ==
    (pc = "previewed" /\ resolution.kind = "preview" /\ LastSearch(resolution) # 0) =>
        LET n       == Len(resolution.issued)
            matched == resolution.issued[LastSearch(resolution)].answer.rows
        IN  /\ matched # <<>>
            /\ resolution.note = fqn_of(matched[1])
            /\ resolution.source = resolution.note
            /\ resolution.issued[n] = Issued(Select(resolution.note), Rows(2))

C20_Witness ==
    /\ pc = "previewed"
    /\ table_name = <<"show ", "table ", "sales">>
    /\ resolution.kind = "preview"
    /\ Len(resolution.issued) = 4
    /\ resolution.issued[3].statement = ShowTables(<<"SALES">>)
    /\ resolution.note = <<"WAREHOUSE", ".", "ANALYTICS", ".", "SALES">>

\* The warehouse has no table, no schema and no database for the name, in the
\* default context or account-wide.
MatchedNothing ==
    /\ pc = "previewed"
    /\ ~qualified(table_name)
    /\ warehouse.direct.kind = "raise"
    /\ warehouse.like = Listing(<<>>)
    /\ warehouse.like_upper = Listing(<<>>)
    /\ warehouse.schemas = Listing(<<>>)
    /\ warehouse.dbs = Listing(<<>>)

\* C21: an unqualified name that matches no table, no schema and no database
\* is answered with the not-found text, which names the catalogue-discovery
\* tool to use next, and never with rows.
C21_NotFoundNamesDiscovery ==
    MatchedNothing =>
        /\ resolution.kind = "not_found"
        /\ "list_tables" \in remedies(resolution.kind)
        /\ resolution.source = <<>>

C21_Witness ==
    /\ MatchedNothing
    /\ table_name = <<"sales">>
    /\ Len(resolution.issued) = 5
    /\ resolution.kind = "not_found"

\* The lower-cased name starts with one of the recognized phrases.
StartsWithPhrase(name) ==
    \E i \in 1..Len(PREFIXES) : startswith(name_lower(name), PREFIXES[i])

\* C22: only a recognized leading phrase is taken from the name: a name that
\* starts with none reaches the lookup as given (surrounding blanks apart),
\* and what reaches the lookup is always the end of the name as given.
C22_TrimmingConservative ==
    (pc = "previewed") =>
        /\ ~StartsWithPhrase(table_name) =>
               resolution.name = name_strip(table_name)
        /\ \E k \in 0..Len(table_name) :
               resolution.name =
                   name_strip(SubSeq(table_name, k + 1, Len(table_name)))

C23_ConversationsIsolated ==
    (/\ reply.tool = "replicate_data_to_sheet"
     /\ Falsy(reply.query)
     /\ reply.ran # None) =>
        reply.ran \in given[caller]

\* The tool module whose SnowflakeClient a tool uses.
ModuleOf(tool) ==
    IF tool = "_query_data_internal" THEN "query_tools" ELSE "sheets_tools"

\* The call handed a statement to SnowflakeClient.query, which raised.
QueryRaised(r) ==
    /\ r.ran # None
    /\ r.kind \in {"error", "not_found"}
    /\ ~r.write_raised

\* The call handed a statement to SnowflakeClient.query, which returned rows.
QuerySucceeded(r) == r.ran # None /\ ~QueryRaised(r)

\* C30: a tool call changes last_executed_query of its own client only, and
\* only to the statement that has just returned its rows; a statement that
\* raises leaves it as it was.
C30_LastOnlyOnSuccess ==
    [][LET t == ModuleOf(reply'.tool)
       IN  /\ \A u \in ToolModules \ {t} :
                  last_executed_query'[u] = last_executed_query[u]
           /\ QueryRaised(reply') =>
                  last_executed_query'[t] = last_executed_query[t]
           /\ QuerySucceeded(reply') => last_executed_query'[t] = reply'.ran
           /\ last_executed_query'[t] # last_executed_query[t] =>
                  QuerySucceeded(reply')]_vars

C30_Witness ==
    /\ reply.tool = "_query_data_internal"
    /\ reply.ran = "SELECT * FROM sales"
    /\ QueryRaised(reply)
    /\ last_executed_query["query_tools"] = "SELECT 1"

\* The verbs of the statements issued, in the order they were issued.
Verbs(r) == [i \in 1..Len(r.issued) |-> r.issued[i].statement.verb]

\* The listing has a row.
Matched(listing) == listing.kind = "listing" /\ listing.rows # <<>>

\* C25: for an unqualified name the strategies run in the fixed order and the
\* resolver stops at the first that succeeds: a schema that matches is
\* reported, and the database search is not made after it.
C25_FirstSuccessStops ==
    (pc = "previewed" /\ ~qualified(table_name)) =>
        /\ \E n \in 0..5 :
               Verbs(resolution) =
                   SubSeq(<<"SELECT * FROM", "SHOW TABLES LIKE", "SHOW TABLES LIKE",
                            "SHOW SCHEMAS LIKE", "SHOW DATABASES LIKE">>, 1, n)
               \/ Verbs(resolution) =
                   SubSeq(<<"SELECT * FROM", "SHOW TABLES LIKE",
                            "SHOW SCHEMAS LIKE", "SHOW DATABASES LIKE">>, 1, n)
               \/ Verbs(resolution) =
                   <<"SELECT * FROM", "SHOW TABLES LIKE", "SELECT * FROM">>
               \/ Verbs(resolution) =
                   <<"SELECT * FROM", "SHOW TABLES LIKE", "SHOW TABLES LIKE",
                     "SELECT * FROM">>
        /\ \A i \in 1..Len(resolution.issued) :
               (/\ resolution.issued[i].statement.verb = "SHOW SCHEMAS LIKE"
                /\ Matched(resolution.issued[i].answer)) =>
                   /\ resolution.kind = "schema"
                   /\ i = Len(resolution.issued)

\* The ids this process has saved for the key, on any instance.
SavedIds(key) ==
    {saved[m][key] : m \in {n \in Managers : key \in DOMAIN saved[n]}}

\* C26: there is one alias store in the process, so get_id in any tool call
\* made after save_alias has returned resolves the alias to an id that was
\* saved for it.
C26_OneStorePerProcess ==
    [][(/\ got' # NoGot
        /\ got' # got
        /\ \A m \in Managers : saving[m] = "idle"
        /\ SavedIds(got'.key) # {}) =>
            got'.value \in SavedIds(got'.key)]_vars

\* C28: when save_alias returns, resources.json holds exactly the alias map
\* of the instance, and loading the file gives that map.
C28_FlushedOnReturn ==
    [][\A m \in Managers :
          (saving[m] = "dump" /\ saving'[m] = "idle") =>
              /\ file' = Stored(resources'[m].map)
              /\ _load_resources(file') = resources'[m].map]_vars

C28_Witness ==
    /\ \A m \in Managers : saving[m] = "idle"
    /\ saves = 2
    /\ resources[1].map = ("q4_report" :> "1Sbjtqe0v0BAT") @@ ("monthly_sales" :> "1AbCdEfGh")
    /\ file = Stored(resources[1].map)

\* The session events that have content, in order.
HasContent(event) == event.kind # "none"

\* C27: every turn of the sequence sent to the oracle has a role; a history
\* turn that came without one is 'model' when the agent wrote it and 'user'
\* otherwise.
C27_RolesResolved ==
    (oracle_calls >= 1) =>
        /\ \A i \in DOMAIN request.contents :
               request.contents[i].role \in {"user", "model"}
        /\ LET kept == SelectSeq(ctx.events, HasContent)
           IN  \A i \in DOMAIN kept :
                   kept[i].role = "" =>
                       request.contents[i].role =
                           IF kept[i].author = AGENT_NAME THEN "model" ELSE "user"

====
